---- MODULE Spec2Model ----
(***************************************************************************)
(* Model of the dossier pipeline of processador_medico_unificado.py: the   *)
(* boilerplate normalizer, the block segmenter, the section splitter, the  *)
(* field extractors and the record assembler with its audit registries.    *)
(*                                                                         *)
(* A text is a sequence of characters; a character is a one-character      *)
(* string, and a character outside ASCII is written by name ("a~" is a     *)
(* with tilde, "CHECK" the check-mark glyph, "VS16" the variation          *)
(* selector U+FE0F, "KEYCAP" U+20E3, "NBSP" the no-break space).           *)
(***************************************************************************)
EXTENDS Integers, Sequences, FiniteSets, TLC

VARIABLES
  pc,        \* position of the running script
  arq,       \* the files of output/: name -> content, or Ausente
  relatos,   \* the messages printed so far
  entrada,   \* arguments of the function under study
  saida,     \* what the function under study returned
  docx,      \* the documents of the source folder, in listing order
  gravavel,  \* whether output/all_texts.txt can be opened for writing
  blocos,    \* processar_documentos_medicos: the blocks of the corpus
  indice,    \* the position in blocos of the block the loop is at
  resultado, \* the dictionary being assembled
  cns_nao_detectados,      \* the four audit registries
  mae_nao_detectados,
  pai_nao_detectados,
  dt_nasc_nao_detectados,
  vistos,    \* the identity numbers seen so far
  dados,     \* main: what processar_documentos_medicos returned
  erro,      \* the exception that ended the run, or ""
  falhou     \* the position of the block on which an extractor raised, or 0

varsMain ==
  <<docx, gravavel, blocos, indice, resultado, cns_nao_detectados, mae_nao_detectados,
    pai_nao_detectados, dt_nasc_nao_detectados, vistos, dados, erro, falhou>>

vars == <<pc, arq, relatos, entrada, saida, varsMain>>

\* the state of the pipeline while a single function is studied
MainParado ==
  /\ docx = <<>>
  /\ gravavel = TRUE
  /\ blocos = <<>>
  /\ indice = 0
  /\ resultado = [medico |-> [blocos |-> <<>>]]
  /\ cns_nao_detectados = <<>>
  /\ mae_nao_detectados = <<>>
  /\ pai_nao_detectados = <<>>
  /\ dt_nasc_nao_detectados = <<>>
  /\ vistos = {}
  /\ dados = <<>>
  /\ erro = ""
  /\ falhou = 0

(***************************************************************************)
(* Characters and Python's str primitives                                  *)
(***************************************************************************)

Min(S) == CHOOSE m \in S : \A k \in S : m <= k
Max(S) == 0 - Min({0 - k : k \in S})

\* e under the name that F gives it: the value of F(e)
Seja(e, F(_)) == F(e)

\* the first of the values of fs that is not 0, 0 when there is none: the end
\* of the first alternative of a pattern that matches
PrimeiroNaoZero(fs) ==
  LET nz == {i \in 1..Len(fs) : fs[i] # 0}
  IN IF nz = {} THEN 0 ELSE fs[Min(nz)]

\* re.search given ms[p], the match that starts at p or <<>>: the leftmost
\* match, or <<>>
PrimeiroCasamento(ms) ==
  LET ok == {p \in 1..Len(ms) : ms[p] # <<>>}
  IN IF ok = {} THEN <<>> ELSE ms[Min(ok)]

\* re.finditer given ms[p], the match that starts at p or <<>>, its last
\* element being the end (exclusive) of the match: the matches from pos on,
\* leftmost first, none overlapping another
RECURSIVE Casamentos(_, _)
Casamentos(ms, pos) ==
  LET ok == {p \in pos..Len(ms) : ms[p] # <<>>}
  IN IF ok = {} THEN <<>>
     ELSE <<ms[Min(ok)]>> \o Casamentos(ms, ms[Min(ok)][Len(ms[Min(ok)])])

\* [m.group(0) for m in finditer] given fim[p], the end (exclusive) of the
\* match that starts at p or 0
RECURSIVE Trechos(_, _, _)
Trechos(s, fim, pos) ==
  LET ok == {p \in pos..Len(s) : fim[p] # 0}
  IN IF ok = {} THEN <<>>
     ELSE <<SubSeq(s, Min(ok), fim[Min(ok)] - 1)>> \o Trechos(s, fim, fim[Min(ok)])

\* the values of a sequence that are not empty
NaoVazio(v) == v # <<>>

\* str.isspace over the alphabet of the model
Espacos == {" ", "\t", "\n", "NBSP"}

\* the indices 1..n as a tuple
Indices(n) == [i \in 1..n |-> i] \o <<>>

\* s[a:b] of Python with 1-based inclusive bounds; empty when a > b
Fatia(s, a, b) == IF a > b THEN <<>> ELSE SubSeq(s, a, b)

\* whether sub occurs in s at index i
OcorreEm(s, sub, i) ==
  /\ i >= 1
  /\ i + Len(sub) - 1 <= Len(s)
  /\ \A k \in 1..Len(sub) : s[i + k - 1] = sub[k]

\* str.find from index p on: the first index >= p where sub occurs, 0 if none
Find(s, sub, p) ==
  LET occ == {i \in p..(Len(s) - Len(sub) + 1) : OcorreEm(s, sub, i)}
  IN IF occ = {} THEN 0 ELSE Min(occ)

\* sub in s
Contem(s, sub) == Find(s, sub, 1) # 0

\* str.count: the number of non-overlapping occurrences, leftmost first
RECURSIVE CountDe(_, _, _)
CountDe(s, sub, p) ==
  IF sub = <<>> THEN Len(s) + 1
  ELSE LET i == Find(s, sub, p)
       IN IF i = 0 THEN 0 ELSE 1 + CountDe(s, sub, i + Len(sub))

Count(s, sub) == CountDe(s, sub, 1)

\* str.replace(old, ""): every non-overlapping occurrence removed, leftmost first
RECURSIVE RemoveDe(_, _, _)
RemoveDe(s, old, p) ==
  LET i == Find(s, old, p)
  IN IF old = <<>> \/ i = 0 THEN Fatia(s, p, Len(s))
     ELSE Fatia(s, p, i - 1) \o RemoveDe(s, old, i + Len(old))

ReplaceVazio(s, old) == RemoveDe(s, old, 1)

\* str.strip(): leading and trailing whitespace removed
Strip(s) ==
  LET pretos == {i \in 1..Len(s) : s[i] \notin Espacos}
  IN IF pretos = {} THEN <<>> ELSE SubSeq(s, Min(pretos), Max(pretos))

\* re.sub(r"\n{3,}", "\n\n", s): a newline that follows two newlines is dropped
ColapsaNL(s) ==
  LET fica(i) == ~(i >= 3 /\ s[i] = "\n" /\ s[i - 1] = "\n" /\ s[i - 2] = "\n")
      idx == SelectSeq(Indices(Len(s)), fica)
  IN [j \in 1..Len(idx) |-> s[idx[j]]] \o <<>>

\* str.lower per character, over the alphabet of the model
MinusculaDe ==
  ("A" :> "a") @@ ("B" :> "b") @@ ("C" :> "c") @@ ("D" :> "d") @@ ("E" :> "e") @@
  ("F" :> "f") @@ ("G" :> "g") @@ ("H" :> "h") @@ ("I" :> "i") @@ ("J" :> "j") @@
  ("K" :> "k") @@ ("L" :> "l") @@ ("M" :> "m") @@ ("N" :> "n") @@ ("O" :> "o") @@
  ("P" :> "p") @@ ("Q" :> "q") @@ ("R" :> "r") @@ ("S" :> "s") @@ ("T" :> "t") @@
  ("U" :> "u") @@ ("V" :> "v") @@ ("W" :> "w") @@ ("X" :> "x") @@ ("Y" :> "y") @@
  ("Z" :> "z") @@ ("A'" :> "a'") @@ ("E'" :> "e'") @@ ("I'" :> "i'") @@ ("O'" :> "o'") @@
  ("U'" :> "u'") @@ ("A~" :> "a~") @@ ("O~" :> "o~") @@ ("C," :> "c,") @@ ("E^" :> "e^") @@
  ("A^" :> "a^") @@ ("O^" :> "o^")

\* NFD decomposition with the combining mark dropped, per character
SemAcentoDe ==
  ("a'" :> "a") @@ ("e'" :> "e") @@ ("i'" :> "i") @@ ("o'" :> "o") @@ ("u'" :> "u") @@
  ("a~" :> "a") @@ ("o~" :> "o") @@ ("c," :> "c") @@ ("e^" :> "e") @@ ("a^" :> "a") @@
  ("o^" :> "o") @@ ("A'" :> "A") @@ ("E'" :> "E") @@ ("I'" :> "I") @@
  ("O'" :> "O") @@ ("U'" :> "U") @@ ("A~" :> "A") @@ ("O~" :> "O") @@ ("C," :> "C") @@
  ("E^" :> "E") @@ ("A^" :> "A") @@ ("O^" :> "O")

Maiusculas == DOMAIN MinusculaDe
Acentuadas == DOMAIN SemAcentoDe
Digitos == {"0", "1", "2", "3", "4", "5", "6", "7", "8", "9"}
LetrasAscii ==
  {"a", "b", "c", "d", "e", "f", "g", "h", "i", "j", "k", "l", "m", "n", "o", "p", "q",
   "r", "s", "t", "u", "v", "w", "x", "y", "z", "A", "B", "C", "D", "E", "F", "G", "H",
   "I", "J", "K", "L", "M", "N", "O", "P", "Q", "R", "S", "T", "U", "V", "W", "X", "Y", "Z"}

\* the class \w of re (Unicode): letters, digits and the underscore
Palavra == LetrasAscii \cup Acentuadas \cup Digitos \cup {"_"}

Minuscula(c) == IF c \in Maiusculas THEN MinusculaDe[c] ELSE c

\* str.lower()
Lower(s) == [i \in 1..Len(s) |-> Minuscula(s[i])] \o <<>>

\* whether sub occurs in s at index i, ignoring case (re.IGNORECASE on a literal)
OcorreEmCI(s, sub, i) ==
  /\ i >= 1
  /\ i + Len(sub) - 1 <= Len(s)
  /\ \A k \in 1..Len(sub) : Minuscula(s[i + k - 1]) = Minuscula(sub[k])

\* the end (exclusive) of the longest run of characters of S that starts at i
FimDaSerie(s, i, S) == Min({j \in i..Len(s) : s[j] \notin S} \cup {Len(s) + 1})

(***************************************************************************)
(* Module 1: the boilerplate normalizer                                    *)
(***************************************************************************)

\* unicodedata.normalize("NFKC", s): the no-break space becomes a space
Nfkc(s) == [i \in 1..Len(s) |-> IF s[i] = "NBSP" THEN " " ELSE s[i]] \o <<>>

\* the characters of category Mn of the alphabet
MarcasMn == {"VS16"}

\* NFD of one character with the combining mark dropped
SemAcento(c) == IF c \in Acentuadas THEN SemAcentoDe[c] ELSE c

NaoMn(c) == c \notin MarcasMn

\* _strip_accents: NFD, then every character of category Mn dropped
StripAccents(s) == SelectSeq([i \in 1..Len(s) |-> SemAcento(s[i])] \o <<>>, NaoMn)

\* the class [,:.;()-] of _normalize_for_compare
PontuacaoCmp == {",", ":", ".", ";", "(", ")", "-"}

ANEXO == <<"a", "n", "e", "x", "o">>

\* (anexo|v) of STOPWORD_PATTERN, under re.IGNORECASE
EhStopword(w) == Lower(w) = ANEXO \/ Lower(w) = <<"v">>

\* the start of the word that s[i] lies in
InicioDaPalavra(s, i) == Max({j \in 1..i : j = 1 \/ s[j - 1] \notin Palavra})

\* STOPWORD_PATTERN \b(anexo|v)\b: s[i] is a letter of a stopword and lies in
\* a whole word that is a stopword
EmStopword(s, i) ==
  /\ Minuscula(s[i]) \in {"a", "n", "e", "x", "o", "v"}
  /\ EhStopword(SubSeq(s, InicioDaPalavra(s, i), FimDaSerie(s, i, Palavra) - 1))

\* s with every run of white space that lies between two other characters
\* turned into one space and the other white space dropped, ultimo being the
\* index of the last character that is not white space
ColapsaAte(s, ultimo) ==
  LET fica(i) == \/ s[i] \notin Espacos
                 \/ i > 1 /\ s[i - 1] \notin Espacos /\ i < ultimo
      idx == SelectSeq(Indices(Len(s)), fica)
  IN [j \in 1..Len(idx) |-> IF s[idx[j]] \in Espacos THEN " " ELSE s[idx[j]]] \o <<>>

\* re.sub(r"\s+", " ", s).strip()
ColapsaEspacos(s) == ColapsaAte(s, Max({i \in 1..Len(s) : s[i] \notin Espacos} \cup {0}))

NaoVS(c) == c # "VS16"

\* re.sub(r"[\uFE0F\u200d]", "", s)
SemVS(s) == SelectSeq(s, NaoVS)

\* every character of [,:.;()-] turned into a space
SemPontuacao(s) == [i \in 1..Len(s) |-> IF s[i] \in PontuacaoCmp THEN " " ELSE s[i]] \o <<>>

\* every character of a stopword turned into a space
SemStopwords(s) == [i \in 1..Len(s) |-> IF EmStopword(s, i) THEN " " ELSE s[i]] \o <<>>

\* _normalize_for_compare: NFKC, lower, accents and variation selectors dropped,
\* punctuation and stopwords turned into spaces, whitespace collapsed.  A run of
\* punctuation or a stopword becomes one space in the code and one space per
\* character here: the whitespace collapse that follows makes the two equal.
NormalizeForCompare(s) ==
  ColapsaEspacos(SemStopwords(SemPontuacao(SemVS(StripAccents(Lower(Nfkc(s)))))))

\* str.split() as a set: the maximal runs of non-whitespace
Tokens(s) ==
  LET ini == {i \in 1..Len(s) : s[i] \notin Espacos /\ (i = 1 \/ s[i - 1] \in Espacos)}
  IN {SubSeq(s, i, Min({j \in i..Len(s) : s[j] \in Espacos} \cup {Len(s) + 1}) - 1) : i \in ini}

\* _token_set
TokenSet(s) == Tokens(NormalizeForCompare(s))

\* inter / base >= 0.7 in floating point is 10 * inter >= 7 * base for the
\* small integers at hand
Similares(ta, tb) ==
  /\ ta # {}
  /\ tb # {}
  /\ 10 * Cardinality(ta \cap tb) >= 7 * Max({Cardinality(ta), Cardinality(tb)})

\* _similar_tokens with threshold 0.7
SimilarTokens(a, b) == Similares(TokenSet(a), TokenSet(b))

FASE == <<"F", "A", "S", "E">>
NL4 == <<"\n", "-", "-", "-", "-">>
NL4SP == <<"\n", "-", "-", "-", "-", " ">>
NLFICHA == <<"\n", "F", "I", "C", "H", "A">>

\* the lookahead of BLOCK_REGEX at index e: (?=(?:\n\s*\n)|\n---- |\nFICHA|$)
FimDeBloco(s, e) ==
  \/ /\ e <= Len(s)
     /\ s[e] = "\n"
     /\ \E f \in (e + 1)..Len(s) : s[f] = "\n" /\ \A g \in (e + 1)..(f - 1) : s[g] \in Espacos
  \/ OcorreEm(s, NL4SP, e)
  \/ OcorreEmCI(s, NLFICHA, e)
  \/ e = Len(s) + 1
  \/ e = Len(s) /\ s[e] = "\n"

\* the lazy body from q on: it consumes no character that \n---- follows, and
\* stops at the first index where the lookahead holds; 0 when there is none
FimDoCorpo(s, q) ==
  LET barra == Min({p \in q..Len(s) : OcorreEm(s, NL4, p + 1)} \cup {Len(s) + 1})
      fins == {e \in q..barra : FimDeBloco(s, e)}
  IN IF fins = {} THEN 0 ELSE Min(fins)

\* the body after the line break at k that ends the first line
AposPrimeiraLinha(s, k) == IF k = 0 THEN 0 ELSE FimDoCorpo(s, k + 1)

\* [^\n]*\n and the body, after the 2 that must stand at j
AposDois(s, j) ==
  IF j > Len(s) \/ s[j] # "2" THEN 0 ELSE AposPrimeiraLinha(s, Find(s, <<"\n">>, j + 1))

\* BLOCK_REGEX tried at index i: the end (exclusive) of the match, 0 when none.
\* FASE\s*2[^\n]*\n, then (?:.(?!\n----))*? taken lazily up to the lookahead.
BlocoEm(s, i) ==
  IF ~OcorreEmCI(s, FASE, i) THEN 0 ELSE AposDois(s, FimDaSerie(s, i + 4, Espacos))

\* the span of a match that starts at i and ends at fim, <<>> when fim = 0
SpanEm(i, fim) == IF fim = 0 THEN <<>> ELSE <<i, fim>>

\* BLOCK_REGEX.finditer(text) from index p on: the spans <<start, end>> (end
\* exclusive), leftmost first, each search resuming where the last match ended
BlocosDe(s, p) == Casamentos([i \in 1..Len(s) |-> SpanEm(i, BlocoEm(s, i))], p)

\* block.count(glyph)
ContaChar(s, c) == Cardinality({i \in 1..Len(s) : s[i] = c})

\* the qualification without the count of marker glyphs
QualificaSemGlifos(block, target) ==
  \/ NormalizeForCompare(block) = NormalizeForCompare(target)
  \/ SimilarTokens(block, target)

\* whether _remove_fuzzy_blocks removes a candidate block
Qualifica(block, target) ==
  /\ ContaChar(block, "CHECK") >= 4
  /\ \/ NormalizeForCompare(block) = NormalizeForCompare(target)
     \/ SimilarTokens(block, target)

\* the candidate spans _remove_fuzzy_blocks keeps for removal
Removals(text, target) ==
  SelectSeq(BlocosDe(text, 1), LAMBDA sp : Qualifica(SubSeq(text, sp[1], sp[2] - 1), target))

\* sorted(removals): ascending by start, then by end
Sorted(spans) ==
  LET menor(a, b) == a[1] < b[1] \/ (a[1] = b[1] /\ a[2] < b[2])
      pos(i) == 1 + Cardinality({j \in 1..Len(spans) :
                     menor(spans[j], spans[i]) \/ (spans[j] = spans[i] /\ j < i)})
  IN [r \in 1..Len(spans) |-> spans[CHOOSE i \in 1..Len(spans) : pos(i) = r]] \o <<>>

\* the merge loop of _remove_fuzzy_blocks over the sorted spans
RECURSIVE MergeDe(_, _)
MergeDe(merged, resto) ==
  IF resto = <<>> THEN merged
  ELSE LET sp == Head(resto)
           n == Len(merged)
       IN IF n = 0 \/ sp[1] > merged[n][2]
          THEN MergeDe(Append(merged, sp), Tail(resto))
          ELSE MergeDe([merged EXCEPT ![n] = <<merged[n][1], Max({merged[n][2], sp[2]})>>],
                       Tail(resto))

\* the merge loop with the end of the later span taken as the end of the two
RECURSIVE MergeDeSemMax(_, _)
MergeDeSemMax(merged, resto) ==
  IF resto = <<>> THEN merged
  ELSE IF Len(merged) = 0 \/ Head(resto)[1] > merged[Len(merged)][2]
    THEN MergeDeSemMax(Append(merged, Head(resto)), Tail(resto))
  ELSE MergeDeSemMax([merged EXCEPT ![Len(merged)] = <<merged[Len(merged)][1], Head(resto)[2]>>], Tail(resto))

MergeSemMax(removals) == MergeDeSemMax(<<>>, Sorted(removals))

Merge(removals) == MergeDe(<<>>, Sorted(removals))

\* the removal loop: the text between the merged spans, joined
RECURSIVE PartesDe(_, _, _)
PartesDe(text, merged, last) ==
  IF merged = <<>> THEN Fatia(text, last, Len(text))
  ELSE Fatia(text, last, Head(merged)[1] - 1) \o PartesDe(text, Tail(merged), Head(merged)[2])

\* the text without the spans to remove
SemRemovals(text, removals) ==
  IF removals = <<>> THEN text ELSE ColapsaNL(PartesDe(text, Merge(removals), 1))

\* _remove_fuzzy_blocks
RemoveFuzzyBlocks(text, target) == SemRemovals(text, Removals(text, target))

\* a file that does not exist, and a file holding a text
Ausente == [existe |-> FALSE, texto |-> <<>>]
Arquivo(t) == [existe |-> TRUE, texto |-> t]

ALL_TEXTS == "all_texts.txt"
NORMALIZADO == "normalizado.txt"
RENORMALIZADO == "renormalizado.txt"
CPFS_BLOCOS == "cpfs_blocos.json"
CPFS_XLSX == "cpfs_blocos.xlsx"
Arquivos == {ALL_TEXTS, NORMALIZADO, RENORMALIZADO, CPFS_BLOCOS, CPFS_XLSX}

\* the text normalizar_textos writes for the text it read
Normalizado(data, target, fuzzy) ==
  ColapsaNL(IF ~fuzzy
            THEN (IF Count(data, target) # 0 THEN ReplaceVazio(data, target) ELSE data)
            ELSE RemoveFuzzyBlocks(data, target))

\* normalizar_textos(input_file, output_file, target, fuzzy): a missing input is
\* reported and nothing is written; the function returns output_file either way
NormalizarTextos(input_file, output_file, target, fuzzy) ==
  IF ~arq[input_file].existe
  THEN /\ relatos' = relatos \cup {<<"Arquivo de entrada nao encontrado", input_file>>}
       /\ UNCHANGED arq
  ELSE /\ arq' = [arq EXCEPT ![output_file] =
                    Arquivo(Normalizado(arq[input_file].texto, target, fuzzy))]
       /\ relatos' = relatos \cup {<<"Arquivo normalizado criado em", output_file>>}

(***************************************************************************)
(* SpecNorm: the normalizer run on a corpus, then on its own output        *)
(***************************************************************************)

MaxCorpus == 5
MaxPecas == 3

AlfabetoNorm == {"a", "b", "\n"}
AlvosExatos == {<<"a", "b">>, <<"b", "\n", "\n", "a">>, <<"\n">>}

PecasFuzzy == <<
  <<"F","A","S","E"," ","2","\n">>,
  <<"CHECK","a"," ","CHECK","b"," ","CHECK","c"," ","CHECK","d">>,
  <<"CHECK","a"," ","CHECK","b"," ","CHECK","c">>,
  <<"\n","\n">>,
  <<"\n","F","I","C","H","A">>,
  <<"x">>,
  <<"F","A","S","E">>,
  <<"\n","2"," ","CHECK","a"," ","CHECK","b"," ","CHECK","c"," ","CHECK","e">> >>

AlvoFuzzy ==
  <<" ","F","A","S","E"," ","2","VS16","\n","CHECK","a",":"," ","a","n","e","x","o"," ","CHECK",
    "b"," ","CHECK","c"," ","CHECK","d">>

SeqsAte(S, n) == UNION {[1..k -> S] : k \in 0..n}

RECURSIVE Junta(_, _)
Junta(pecas, is) == IF is = <<>> THEN <<>> ELSE pecas[Head(is)] \o Junta(pecas, Tail(is))

CorporaExatos == SeqsAte(AlfabetoNorm, MaxCorpus)
CorporaFuzzy == {Junta(PecasFuzzy, is) : is \in SeqsAte(1..Len(PecasFuzzy), MaxPecas)}

EntradasNorm ==
  [corpus : CorporaExatos, target : AlvosExatos, fuzzy : {FALSE}, existe : {TRUE}]
  \cup [corpus : CorporaFuzzy, target : {AlvoFuzzy}, fuzzy : BOOLEAN, existe : {TRUE}]
  \cup [corpus : {<<>>}, target : {AlvoFuzzy}, fuzzy : BOOLEAN, existe : {FALSE}]

InitNorm ==
  /\ entrada \in EntradasNorm
  /\ pc = "normaliza"
  /\ arq = [f \in Arquivos |->
              IF f = ALL_TEXTS /\ entrada.existe THEN Arquivo(entrada.corpus) ELSE Ausente]
  /\ relatos = {}
  /\ MainParado
  /\ saida = <<>>

\* normalizar_textos on all_texts.txt
Normaliza ==
  /\ pc = "normaliza"
  /\ NormalizarTextos(ALL_TEXTS, NORMALIZADO, entrada.target, entrada.fuzzy)
  /\ pc' = "renormaliza"
  /\ UNCHANGED <<entrada, saida, varsMain>>

\* normalizar_textos on the file the first run returned
Renormaliza ==
  /\ pc = "renormaliza"
  /\ NormalizarTextos(NORMALIZADO, RENORMALIZADO, entrada.target, entrada.fuzzy)
  /\ pc' = "fim"
  /\ UNCHANGED <<entrada, saida, varsMain>>

NextNorm == Normaliza \/ Renormaliza

SpecNorm == InitNorm /\ [][NextNorm]_vars

\* C1: normalization is idempotent: the normalizer run on its own output (same
\* target, same mode) writes exactly that output again
C1_Idempotente ==
  (pc = "fim" /\ arq[NORMALIZADO].existe) => arq[RENORMALIZADO] = arq[NORMALIZADO]

(***************************************************************************)
(* The block segmenter                                                     *)
(***************************************************************************)

DELIMITADOR ==
  <<"-","-","-","-","-","-","-","-","-","-","-","-","-","-","-","-","-","-","-","-","-","-",
    "-","-","-","-","-","-","-","-","-","-","-","\n","\n">>

\* str.split(sep) from index p on: the pieces between the occurrences of sep,
\* leftmost first, empty pieces kept
RECURSIVE SplitDe(_, _, _)
SplitDe(s, sep, p) ==
  LET i == Find(s, sep, p)
  IN IF i = 0 THEN <<Fatia(s, p, Len(s))>>
     ELSE <<Fatia(s, p, i - 1)>> \o SplitDe(s, sep, i + Len(sep))

Split(s, sep) == SplitDe(s, sep, 1)

\* the segmenter with the kept blocks left untrimmed
BlocosSemStrip(conteudo) ==
  LET naoVazio(b) == Strip(b) # <<>>
  IN SelectSeq(Split(conteudo, DELIMITADOR), naoVazio)

\* [b.strip() for b in conteudo.split(DELIMITADOR) if b.strip()]
Blocos(conteudo) ==
  LET naoVazio(b) == Strip(b) # <<>>
      sel == SelectSeq(Split(conteudo, DELIMITADOR), naoVazio)
  IN [i \in 1..Len(sel) |-> Strip(sel[i])] \o <<>>

(***************************************************************************)
(* SpecSeg: the segmenter on corpora framed segment by segment             *)
(***************************************************************************)

MaxSegs == 3

\* sample segments: plain, padded, blank, ending in a dash, holding a shorter
\* dash line, a header line as extrair_todos_textos writes it
SegsAmostra == <<
  <<"a">>,
  <<" ","\n","b"," ","c","\n">>,
  <<" ","\n">>,
  <<"d","-">>,
  <<"-","-","-","-","\n","\n","e">>,
  <<"-","-","-","-"," ","f"," ","-","-","-","-","\n","g","\n">> >>

RestosAmostra == {<<>>, <<"\n">>, <<"h">>}

\* the corpus: every segment followed by the delimiter, then the rest
RECURSIVE Emoldura(_)
Emoldura(segs) ==
  IF segs = <<>> THEN <<>> ELSE Head(segs) \o DELIMITADOR \o Emoldura(Tail(segs))

EntradasSeg ==
  {[segs |-> [i \in 1..Len(is) |-> SegsAmostra[is[i]]], resto |-> r] :
     is \in SeqsAte(1..Len(SegsAmostra), MaxSegs), r \in RestosAmostra}

CorpusDe(e) == Emoldura(e.segs) \o e.resto

InitSeg ==
  /\ entrada \in EntradasSeg
  /\ pc = "segmenta"
  /\ arq = [f \in Arquivos |-> Ausente]
  /\ relatos = {}
  /\ MainParado
  /\ saida = <<>>

Segmenta ==
  /\ pc = "segmenta"
  /\ saida' = Blocos(CorpusDe(entrada))
  /\ pc' = "fim"
  /\ UNCHANGED <<arq, relatos, entrada, varsMain>>

NextSeg == Segmenta

SpecSeg == InitSeg /\ [][NextSeg]_vars

\* the number of places where the delimiter occurs in s
Ocorrencias(s) == Cardinality({i \in 1..Len(s) : OcorreEm(s, DELIMITADOR, i)})

\* the corpus holds exactly k delimiters, each closing a segment that is
\* non-empty after trimming, and nothing but whitespace follows the last
BemEmoldurado(e) ==
  /\ Ocorrencias(CorpusDe(e)) = Len(e.segs)
  /\ \A i \in 1..Len(e.segs) : Strip(e.segs[i]) # <<>>
  /\ Strip(e.resto) = <<>>

\* C2: a corpus of exactly k delimiters, each bounding text that is non-empty
\* after trimming, yields exactly k blocks, in corpus order, each the trimmed
\* text of its segment
C2_SegmentacaoCompleta ==
  (pc = "fim" /\ BemEmoldurado(entrada)) =>
     /\ Len(saida) = Len(entrada.segs)
     /\ \A i \in 1..Len(saida) : saida[i] = Strip(entrada.segs[i])

C2_Testemunha ==
  /\ pc = "fim"
  /\ BemEmoldurado(entrada)
  /\ Len(saida) = 3
  /\ \E i \in 1..3 : entrada.segs[i] # Strip(entrada.segs[i])
  /\ \E i \in 1..3 : Contem(entrada.segs[i], <<"-", "-", "-", "-">>)

(***************************************************************************)
(* Module 3: the section splitter                                          *)
(***************************************************************************)

PLACEHOLDER_CADASTRO ==
  <<"C","A","D","A","S","T","R","O"," ","n","a","o"," ","d","e","t","e","c","t","a","d","o">>

PLACEHOLDER_FORMACAO ==
  <<"F","O","R","M","A","C","A","O"," ","P","R","O","F","I","S","S","I","O","N","A","L"," ","n",
    "a","o"," ","d","e","t","e","c","t","a","d","a">>

PLACEHOLDER_RECEBIMENTO ==
  <<"R","E","C","E","B","I","M","E","N","T","O"," ","n","a","o"," ","d","e","t","e","c","t","a",
    "d","o">>

\* FORMACAO_RE matched at index i: FORMA[ÇC][AÃ]O PROFISSIONAL, ignoring case
FormacaoEm(s, i) ==
  /\ OcorreEmCI(s, <<"F","O","R","M","A">>, i)
  /\ i + 20 <= Len(s)
  /\ Minuscula(s[i + 5]) \in {"c,", "c"}
  /\ Minuscula(s[i + 6]) \in {"a", "a~"}
  /\ OcorreEmCI(s, <<"O"," ","P","R","O","F","I","S","S","I","O","N","A","L">>, i + 7)

\* RECEBIMENTO_RE matched at index i
RecebimentoEm(s, i) == OcorreEmCI(s, <<"R","E","C","E","B","I","M","E","N","T","O">>, i)

\* re.search: the index where the first match starts, 0 when there is none
FormacaoSearch(s) ==
  LET m == {i \in 1..Len(s) : FormacaoEm(s, i)} IN IF m = {} THEN 0 ELSE Min(m)

RecebimentoSearch(s) ==
  LET m == {i \in 1..Len(s) : RecebimentoEm(s, i)} IN IF m = {} THEN 0 ELSE Min(m)

\* the section splitter without the fall-back to the whole block
ExtraiSecaoSemFallback(bloco) ==
  LET f == FormacaoSearch(bloco)
      r == RecebimentoSearch(bloco)
      n == Len(bloco)
      cad == IF f # 0 /\ (r = 0 \/ f < r) THEN Strip(Fatia(bloco, 1, f - 1))
             ELSE IF r # 0 THEN Strip(Fatia(bloco, 1, r - 1))
             ELSE Strip(bloco)
  IN [cadastro |-> IF cad = <<>> THEN PLACEHOLDER_CADASTRO ELSE cad,
      formacao |-> IF f # 0 /\ (r = 0 \/ f < r)
                   THEN (IF r # 0 /\ r > f THEN Strip(Fatia(bloco, f, r - 1))
                         ELSE Strip(Fatia(bloco, f, n)))
                   ELSE PLACEHOLDER_FORMACAO,
      recebimento |-> IF r # 0 THEN Strip(Fatia(bloco, r, n)) ELSE PLACEHOLDER_RECEBIMENTO]

\* the section splitter taking the training anchor wherever it stands
ExtraiSecaoSemOrdem(bloco) ==
  LET f == FormacaoSearch(bloco)
      r == RecebimentoSearch(bloco)
      n == Len(bloco)
      cad == IF f # 0 THEN Strip(Fatia(bloco, 1, f - 1))
             ELSE IF r # 0 THEN Strip(Fatia(bloco, 1, r - 1))
             ELSE Strip(bloco)
  IN [cadastro |-> IF cad = <<>>
                   THEN (IF Strip(bloco) # <<>> THEN Strip(bloco) ELSE PLACEHOLDER_CADASTRO)
                   ELSE cad,
      formacao |-> IF f # 0
                   THEN (IF r # 0 /\ r > f THEN Strip(Fatia(bloco, f, r - 1))
                         ELSE Strip(Fatia(bloco, f, n)))
                   ELSE PLACEHOLDER_FORMACAO,
      recebimento |-> IF r # 0 THEN Strip(Fatia(bloco, r, n)) ELSE PLACEHOLDER_RECEBIMENTO]

\* extrai_secao: the three sections of a block.  formacao and recebimento stay
\* None in the code until the placeholders are filled in; here a section is
\* given or not by the same conditions.
ExtraiSecao(bloco) ==
  LET f == FormacaoSearch(bloco)
      r == RecebimentoSearch(bloco)
      n == Len(bloco)
      formAntes == f # 0 /\ (r = 0 \/ f < r)
      temReceb == IF formAntes THEN r # 0 /\ r > f ELSE r # 0
      cad == IF formAntes THEN Strip(Fatia(bloco, 1, f - 1))
             ELSE IF r # 0 THEN Strip(Fatia(bloco, 1, r - 1))
             ELSE Strip(bloco)
  IN [cadastro |-> IF cad = <<>>
                   THEN (IF Strip(bloco) # <<>> THEN Strip(bloco) ELSE PLACEHOLDER_CADASTRO)
                   ELSE cad,
      formacao |-> IF formAntes
                   THEN (IF temReceb THEN Strip(Fatia(bloco, f, r - 1))
                         ELSE Strip(Fatia(bloco, f, n)))
                   ELSE PLACEHOLDER_FORMACAO,
      recebimento |-> IF temReceb THEN Strip(Fatia(bloco, r, n)) ELSE PLACEHOLDER_RECEBIMENTO]

(***************************************************************************)
(* SpecSecao: the section splitter on blocks put together from pieces      *)
(***************************************************************************)

MaxPecasSecao == 3

PecasSecao == <<
  <<"F","O","R","M","A","C,","A~","O"," ","P","R","O","F","I","S","S","I","O","N","A","L">>,
  <<"f","o","r","m","a","c","a","o"," ","p","r","o","f","i","s","s","i","o","n","a","l">>,
  <<"R","e","c","e","b","i","m","e","n","t","o">>,
  <<"F","O","R","M","A","C","A","O">>,
  <<"N","o","m","e",":"," ","x">>,
  <<"\n">>,
  <<" ","y"," ">>,
  <<" ">> >>

EntradasSecao == {Junta(PecasSecao, is) : is \in SeqsAte(1..Len(PecasSecao), MaxPecasSecao)}

InitSecao ==
  /\ entrada \in EntradasSecao
  /\ pc = "secao"
  /\ arq = [f \in Arquivos |-> Ausente]
  /\ relatos = {}
  /\ MainParado
  /\ saida = <<>>

Secao ==
  /\ pc = "secao"
  /\ saida' = ExtraiSecao(entrada)
  /\ pc' = "fim"
  /\ UNCHANGED <<arq, relatos, entrada, varsMain>>

NextSecao == Secao

SpecSecao == InitSecao /\ [][NextSecao]_vars

\* p is the first place of b where the training (compensation) anchor stands
PrimeiraFormacao(b, p) == FormacaoEm(b, p) /\ \A q \in 1..(p - 1) : ~FormacaoEm(b, q)
PrimeiroRecebimento(b, p) == RecebimentoEm(b, p) /\ \A q \in 1..(p - 1) : ~RecebimentoEm(b, q)
SemFormacao(b) == \A q \in 1..Len(b) : ~FormacaoEm(b, q)
SemRecebimento(b) == \A q \in 1..Len(b) : ~RecebimentoEm(b, q)

\* the registration section is the trimmed slice, unless that slice is empty
CadastroEh(sec, fatia) == Strip(fatia) # <<>> => sec.cadastro = Strip(fatia)

\* C8: the four rows of the decision table, on the first occurrence of each
\* anchor, every section being the trimmed slice: (1) training before
\* compensation: text before training / training up to compensation /
\* compensation to the end; (2) training only: training to the end,
\* compensation placeholder; (3) training absent or only after compensation:
\* text before compensation / training placeholder / compensation to the end;
\* (4) neither: the whole block and both placeholders
C8_TabelaDeSecoes ==
  pc = "fim" =>
    LET b == entrada
        n == Len(b)
    IN /\ \A f \in 1..n, r \in 1..n :
            (PrimeiraFormacao(b, f) /\ PrimeiroRecebimento(b, r) /\ f < r) =>
               /\ CadastroEh(saida, Fatia(b, 1, f - 1))
               /\ saida.formacao = Strip(Fatia(b, f, r - 1))
               /\ saida.recebimento = Strip(Fatia(b, r, n))
       /\ \A f \in 1..n :
            (PrimeiraFormacao(b, f) /\ SemRecebimento(b)) =>
               /\ CadastroEh(saida, Fatia(b, 1, f - 1))
               /\ saida.formacao = Strip(Fatia(b, f, n))
               /\ saida.recebimento = PLACEHOLDER_RECEBIMENTO
       /\ \A r \in 1..n :
            (PrimeiroRecebimento(b, r)
               /\ (SemFormacao(b) \/ \E f \in (r + 1)..n : PrimeiraFormacao(b, f))) =>
               /\ CadastroEh(saida, Fatia(b, 1, r - 1))
               /\ saida.formacao = PLACEHOLDER_FORMACAO
               /\ saida.recebimento = Strip(Fatia(b, r, n))
       /\ (SemFormacao(b) /\ SemRecebimento(b)) =>
               /\ CadastroEh(saida, b)
               /\ saida.formacao = PLACEHOLDER_FORMACAO
               /\ saida.recebimento = PLACEHOLDER_RECEBIMENTO

\* the training anchor stands only after the compensation anchor, with text
\* before both
C8_Testemunha ==
  /\ pc = "fim"
  /\ \E r \in 2..Len(entrada) :
       /\ PrimeiroRecebimento(entrada, r)
       /\ \E f \in (r + 1)..Len(entrada) : PrimeiraFormacao(entrada, f)
       /\ Strip(Fatia(entrada, 1, r - 1)) # <<>>
  /\ saida.formacao = PLACEHOLDER_FORMACAO
  /\ saida.recebimento # PLACEHOLDER_RECEBIMENTO

\* the slice before the first anchor of b that decides the registration section
FatiaDeCadastro(b) ==
  LET f == {p \in 1..Len(b) : FormacaoEm(b, p)}
      r == {p \in 1..Len(b) : RecebimentoEm(b, p)}
  IN IF f = {} /\ r = {} THEN b ELSE Fatia(b, 1, Min(f \cup r) - 1)

Nenhum == <<>>
Algum(v) == <<v>>

\* x or placeholder: None and the empty string are both false
Ou(r, p) == IF r = Nenhum THEN p ELSE IF r[1] = <<>> THEN p ELSE r[1]

\* the end (exclusive) of the line that holds index i
FimDaLinha(s, i) == Min({j \in i..Len(s) : s[j] = "\n"} \cup {Len(s) + 1})

\* str.splitlines: the pieces between line breaks, without a final empty piece
SplitLines(s) ==
  LET comeca(i) == i = 1 \/ s[i - 1] = "\n"
      comecos == SelectSeq(Indices(Len(s)), comeca)
  IN [k \in 1..Len(comecos) |-> Fatia(s, comecos[k], FimDaLinha(s, comecos[k]) - 1)] \o <<>>

\* re.sub(r"\D", "", s)
SoDigitos(s) ==
  LET digito(c) == c \in Digitos
  IN SelectSeq(s, digito)

\* the class [\d.\-] and the repetition {11,18} of CPF_CANDIDATO_RE
CpfClasse == Digitos \cup {".", "-"}
CPF_FRAG_MIN == 11
CPF_FRAG_MAX == 18
CPF_DIGITOS == 11

\* CPF_CANDIDATO_RE.findall(linha): every maximal run of the class is cut,
\* left to right, in fragments of 18 characters; the last fragment of a run
\* is kept when it has at least 11 characters
CpfCandidatos(linha) ==
  LET n == Len(linha)
      fora(i) == i < 1 \/ linha[i] \notin CpfClasse
      inicio(i) == Max({j \in 1..i : fora(j - 1)})
      fim(i) == FimDaSerie(linha, i, CpfClasse)
      comeca(i) == /\ ~fora(i)
                   /\ (i - inicio(i)) % CPF_FRAG_MAX = 0
                   /\ fim(i) - i >= CPF_FRAG_MIN
      comecos == SelectSeq(Indices(n), comeca)
  IN [k \in 1..Len(comecos) |->
        Fatia(linha, comecos[k], Min({comecos[k] + CPF_FRAG_MAX, fim(comecos[k])}) - 1)] \o <<>>

\* _normalizar_cpf_fragmento
NormalizarCpfFragmento(fragmento) ==
  LET digits == SoDigitos(fragmento)
  IN IF Len(digits) = CPF_DIGITOS THEN Algum(digits) ELSE Nenhum

\* _extrair_cpf_de_linha
ExtrairCpfDeLinha(linha) ==
  LET frags == CpfCandidatos(linha)
      valido(f) == NormalizarCpfFragmento(f) # Nenhum
      bons == SelectSeq(frags, valido)
  IN [k \in 1..Len(bons) |-> NormalizarCpfFragmento(bons[k])[1]] \o <<>>

CPF == <<"c", "p", "f">>
PIX == <<"p", "i", "x">>

\* _encontrar_cpf_em_bloco with the lines that mention pix searched as well
EncontrarCpfEmBlocoComPix(bloco) ==
  LET linhas == SplitLines(bloco)
      serve(k) == LET line == Strip(linhas[k])
                  IN /\ line # <<>>
                     /\ Contem(Lower(line), CPF)
                     /\ ExtrairCpfDeLinha(line) # <<>>
      ks == {k \in 1..Len(linhas) : serve(k)}
  IN IF ks = {} THEN Nenhum ELSE Algum(ExtrairCpfDeLinha(Strip(linhas[Min(ks)]))[1])

\* _encontrar_cpf_em_bloco: the first valid number of the first line that
\* mentions cpf, does not mention pix and holds a valid number
EncontrarCpfEmBloco(bloco) ==
  LET linhas == SplitLines(bloco)
      serve(k) == LET line == Strip(linhas[k])
                  IN /\ line # <<>>
                     /\ Contem(Lower(line), CPF)
                     /\ ~Contem(Lower(line), PIX)
                     /\ ExtrairCpfDeLinha(line) # <<>>
      ks == {k \in 1..Len(linhas) : serve(k)}
  IN IF ks = {} THEN Nenhum ELSE Algum(ExtrairCpfDeLinha(Strip(linhas[Min(ks)]))[1])

(***************************************************************************)
(* The identity-number extractor alone, on blocks of a few lines           *)
(***************************************************************************)

MaxLinhasCpf == 3

CPF_EXEMPLO == <<"C", "P", "F", ":", " ", "1", "2", "3", ".", "4", "5", "6", ".", "7", "8", "9", "-", "0", "9">>
PIX_EXEMPLO == <<"C", "P", "F", " ", "v", "i", "a", " ", "P", "I", "X", ":", " ", "1", "2", "3", ".", "4", "5", "6", ".", "7", "8", "9", "-", "0", "9">>

LinhasCpf ==
  { CPF_EXEMPLO,
    PIX_EXEMPLO,
    <<"P", "i", "x", " ", "9", "8", "7", "6", "5", "4", "3", "2", "1", "0", "0">>,
    <<" ", "c", "p", "f", " ", "9", "8", "7", "6", "5", "4", "3", "2", "1", "0", "0", " ">>,
    <<"C", "P", "F", ":", " ", "1", "2", "3", "4", "5", "6", "7", "8", "9", "0">>,
    <<"C", "p", "f", " ", "1", "1", "1", ".", "2", "2", "2", ".", "3", "3", "3", "-", "4", "4", "4", " ", "/", " ", "5", "5", "5", "6", "6", "6", "7", "7", "7", "8", "8">>,
    <<"c", "p", "f", " ", ".", ".", ".", ".", ".", ".", ".", ".", ".", ".", ".", "1", "2", "3", "4", "5", "6", "7", "8", "9", "0", "1">>,
    <<"C", "P", "F", " ", "-", "-", "-", "-", "-", "-", "-", "1", "2", "3", "4", "5", "6", "7", "8", "9", "0", "1", "9", "9">>,
    <<"N", "o", "m", "e", ":", " ", "A", "n", "a", " ", "1", "2", "3", "4", "5", "6", "7", "8", "9", "0", "9">>,
    <<>> }

RECURSIVE JuntaLinhas(_)
JuntaLinhas(ls) ==
  IF ls = <<>> THEN <<>>
  ELSE IF Len(ls) = 1 THEN ls[1]
  ELSE ls[1] \o <<"\n">> \o JuntaLinhas(Tail(ls))

EntradasCpf == {JuntaLinhas(ls) : ls \in SeqsAte(LinhasCpf, MaxLinhasCpf)}

InitCpf ==
  /\ pc = "cpf"
  /\ entrada \in EntradasCpf
  /\ saida = Nenhum
  /\ arq = [f \in Arquivos |-> Ausente]
  /\ relatos = {}
  /\ MainParado

Cpf ==
  /\ pc = "cpf"
  /\ saida' = EncontrarCpfEmBloco(entrada)
  /\ pc' = "fim"
  /\ UNCHANGED <<arq, relatos, entrada, varsMain>>

NextCpf == Cpf

SpecCpf == InitCpf /\ [][NextCpf]_vars

\* the lines of b, trimmed, that mention cpf and do not mention pix
LinhasDeCpf(b) ==
  {Strip(SplitLines(b)[k]) : k \in {j \in 1..Len(SplitLines(b)) :
     /\ Contem(Lower(SplitLines(b)[j]), CPF)
     /\ ~Contem(Lower(SplitLines(b)[j]), PIX)}}

\* v is what is left of some digit/dot/hyphen fragment of line l, of 11 to 18
\* characters, once the non-digits are stripped
VemDeFragmento(v, l) ==
  \E a \in 1..Len(l) : \E t \in CPF_FRAG_MIN..CPF_FRAG_MAX :
    /\ a + t - 1 <= Len(l)
    /\ \A i \in a..(a + t - 1) : l[i] \in CpfClasse
    /\ SoDigitos(SubSeq(l, a, a + t - 1)) = v

\* C10: a returned identity number is exactly 11 decimal digits, stripped from
\* one digit/dot/hyphen fragment of a line that contains 'cpf' and not 'pix'
\* (case-insensitive); a number that is only on lines mentioning 'pix' is
\* never returned
C10_CpfValido ==
  (pc = "fim" /\ saida # Nenhum) =>
    /\ Len(saida[1]) = 11
    /\ \A i \in 1..11 : saida[1][i] \in {"0", "1", "2", "3", "4", "5", "6", "7", "8", "9"}
    /\ \E l \in LinhasDeCpf(entrada) : VemDeFragmento(saida[1], l)
    /\ ~(\A k \in 1..Len(SplitLines(entrada)) :
           VemDeFragmento(saida[1], SplitLines(entrada)[k])
             => Contem(Lower(SplitLines(entrada)[k]), PIX))

\* a block whose first line mentions pix and whose second line is the labelled
\* number: the first line is passed over and the second gives the number
C10_Testemunha ==
  /\ pc = "fim"
  /\ entrada = PIX_EXEMPLO \o <<"\n">> \o CPF_EXEMPLO
  /\ saida = Algum(<<"1", "2", "3", "4", "5", "6", "7", "8", "9", "0", "9">>)

(***************************************************************************)
(* The other single-valued extractors                                      *)
(***************************************************************************)

\* the trimmed, non-empty lines of a block, in order
LinhasUteis(bloco) ==
  LET naoVazia(l) == Strip(l) # <<>>
      ls == SelectSeq(SplitLines(bloco), naoVazia)
  IN [k \in 1..Len(ls) |-> Strip(ls[k])] \o <<>>

\* the raw lines of a block whose trimmed text is not empty, in order
LinhasCruas(bloco) ==
  LET naoVazia(l) == Strip(l) # <<>>
  IN SelectSeq(SplitLines(bloco), naoVazia)

\* _strip_accents(line.lower())
Lowered(line) == StripAccents(Lower(line))

\* str.replace(" ", "")
SemEspaco(s) ==
  LET naoEspaco(c) == c # " "
  IN SelectSeq(s, naoEspaco)

\* _extrair_valor_pos_label: the trimmed text after the first colon, or None
ExtrairValorPosLabel(line) ==
  LET i == Find(line, <<":">>, 1)
  IN IF i = 0 THEN Nenhum
     ELSE IF Strip(Fatia(line, i + 1, Len(line))) = <<>> THEN Nenhum
     ELSE Algum(Strip(Fatia(line, i + 1, Len(line))))

CNS == <<"c", "n", "s">>
CNS_DIGITOS == 15

\* QUINZE_DIGITOS_RE.search(s): the first 15 digits in a row, or None
QuinzeDigitos(s) ==
  LET ok == {i \in 1..(Len(s) - CNS_DIGITOS + 1) :
               \A k \in i..(i + CNS_DIGITOS - 1) : s[k] \in Digitos}
  IN IF ok = {} THEN Nenhum ELSE Algum(SubSeq(s, Min(ok), Min(ok) + CNS_DIGITOS - 1))

\* what a line gives when only 15 digits in a row, as written, are taken
CnsDeLinhaContiguo(line) == QuinzeDigitos(line)

\* what one line that mentions cns gives: 15 digits in a row once the spaces
\* are taken out, else the first 15 digits of the line, else None
CnsDeLinha(line) ==
  IF QuinzeDigitos(SemEspaco(line)) # Nenhum THEN QuinzeDigitos(SemEspaco(line))
  ELSE IF Len(SoDigitos(line)) >= CNS_DIGITOS THEN Algum(SubSeq(SoDigitos(line), 1, CNS_DIGITOS))
  ELSE Nenhum

\* _encontrar_cns_em_bloco
EncontrarCnsEmBloco(bloco) ==
  LET ls == LinhasUteis(bloco)
      ks == {k \in 1..Len(ls) : Contem(Lower(ls[k]), CNS) /\ CnsDeLinha(ls[k]) # Nenhum}
  IN IF ks = {} THEN Nenhum ELSE CnsDeLinha(ls[Min(ks)])

NOME_DA_MAE == <<"n", "o", "m", "e", " ", "d", "a", " ", "m", "a", "e">>
NOME_DO_PAI == <<"n", "o", "m", "e", " ", "d", "o", " ", "p", "a", "i">>
NOME_DA_PAI == <<"n", "o", "m", "e", " ", "d", "a", " ", "p", "a", "i">>

\* _encontrar_nome_mae: the first line with the label decides
EncontrarNomeMae(bloco) ==
  LET ls == LinhasUteis(bloco)
      ks == {k \in 1..Len(ls) : Contem(Lowered(ls[k]), NOME_DA_MAE)}
  IN IF ks = {} THEN Nenhum ELSE ExtrairValorPosLabel(ls[Min(ks)])

\* _encontrar_nome_pai
EncontrarNomePai(bloco) ==
  LET ls == LinhasUteis(bloco)
      ks == {k \in 1..Len(ls) : \/ Contem(Lowered(ls[k]), NOME_DO_PAI)
                                \/ Contem(Lowered(ls[k]), NOME_DA_PAI)}
  IN IF ks = {} THEN Nenhum ELSE ExtrairValorPosLabel(ls[Min(ks)])

\* int(s) of a run of digits
DigitoChar == <<"0", "1", "2", "3", "4", "5", "6", "7", "8", "9">>
ValorDoDigito(c) == CHOOSE v \in 0..9 : DigitoChar[v + 1] = c

RECURSIVE Potencia(_, _)
Potencia(b, e) == IF e = 0 THEN 1 ELSE b * Potencia(b, e - 1)

RECURSIVE IntDe(_)
IntDe(ds) == IF ds = <<>> THEN 0 ELSE 10 * IntDe(SubSeq(ds, 1, Len(ds) - 1)) + ValorDoDigito(ds[Len(ds)])

\* f"{n:0wd}": n in decimal, padded with zeros to w digits
Formata(n, w) == [i \in 1..w |-> DigitoChar[((n \div Potencia(10, w - i)) % 10) + 1]] \o <<>>

SECULO_LIMITE == 30

\* _normalizar_data with every two-digit year put in the 1900s
NormalizarDataSeculo1900(d, m, y) ==
  IF ~(1 <= m /\ m <= 12 /\ 1 <= d /\ d <= 31) THEN Nenhum
  ELSE Algum(Formata(IF y < 100 THEN 1900 + y ELSE y, 4) \o <<"-">> \o Formata(m, 2) \o <<"-">> \o Formata(d, 2))

\* _normalizar_data
NormalizarData(d, m, y) ==
  LET ano == IF y < 100 THEN (IF y >= SECULO_LIMITE THEN 1900 + y ELSE 2000 + y) ELSE y
  IN IF ~(1 <= m /\ m <= 12 /\ 1 <= d /\ d <= 31) THEN Nenhum
     ELSE Algum(Formata(ano, 4) \o <<"-">> \o Formata(m, 2) \o <<"-">> \o Formata(d, 2))

SeparadoresDeData == {"-", "/", "."}

\* the word boundary \b between s[i - 1] and s[i]
Fronteira(s, i) ==
  (i >= 2 /\ i - 1 <= Len(s) /\ s[i - 1] \in Palavra) # (i >= 1 /\ i <= Len(s) /\ s[i] \in Palavra)

\* whether s[a..b] exists and is all digits
SaoDigitos(s, a, b) == a >= 1 /\ b <= Len(s) /\ \A k \in a..b : s[k] \in Digitos

\* the ways DATA_REGEXES[0] matches at i, as <<n1, n2, n3>> (the lengths of
\* the three groups), in the order the engine tries them
TentativasData1 ==
  <<<<2, 2, 4>>, <<2, 2, 3>>, <<2, 2, 2>>, <<2, 1, 4>>, <<2, 1, 3>>, <<2, 1, 2>>,
    <<1, 2, 4>>, <<1, 2, 3>>, <<1, 2, 2>>, <<1, 1, 4>>, <<1, 1, 3>>, <<1, 1, 2>>>>

CasaData1(s, i, t) ==
  /\ Fronteira(s, i)
  /\ SaoDigitos(s, i, i + t[1] - 1)
  /\ i + t[1] <= Len(s) /\ s[i + t[1]] \in SeparadoresDeData
  /\ SaoDigitos(s, i + t[1] + 1, i + t[1] + t[2])
  /\ i + t[1] + t[2] + 1 <= Len(s) /\ s[i + t[1] + t[2] + 1] \in SeparadoresDeData
  /\ SaoDigitos(s, i + t[1] + t[2] + 2, i + t[1] + t[2] + t[3] + 1)
  /\ Fronteira(s, i + t[1] + t[2] + t[3] + 2)

GruposData1(s, i, t) ==
  <<SubSeq(s, i, i + t[1] - 1),
    SubSeq(s, i + t[1] + 1, i + t[1] + t[2]),
    SubSeq(s, i + t[1] + t[2] + 2, i + t[1] + t[2] + t[3] + 1)>>

\* the ways DATA_REGEXES[1] matches at i, as <<n1, n2>>, in the engine's order
TentativasData2 == <<<<2, 2>>, <<2, 1>>, <<1, 2>>, <<1, 1>>>>

CasaData2(s, i, t) ==
  /\ Fronteira(s, i)
  /\ SaoDigitos(s, i, i + t[1] - 1)
  /\ i + t[1] <= Len(s) /\ s[i + t[1]] \in SeparadoresDeData
  /\ SaoDigitos(s, i + t[1] + 1, i + t[1] + t[2] + 4)
  /\ Fronteira(s, i + t[1] + t[2] + 5)

GruposData2(s, i, t) ==
  <<SubSeq(s, i, i + t[1] - 1),
    SubSeq(s, i + t[1] + 1, i + t[1] + t[2]),
    SubSeq(s, i + t[1] + t[2] + 1, i + t[1] + t[2] + 4)>>

\* DATA_REGEXES[2] at i: eight digits between word boundaries
CasaData3(s, i) ==
  /\ Fronteira(s, i)
  /\ SaoDigitos(s, i, i + 7)
  /\ Fronteira(s, i + 8)

\* rx.search(after).groups() for the three patterns: None, or the groups of
\* the leftmost match, taken the first way the engine finds
BuscaData1(s) ==
  LET ok == {i \in 1..Len(s) : \E k \in 1..Len(TentativasData1) : CasaData1(s, i, TentativasData1[k])}
  IN IF ok = {} THEN Nenhum
     ELSE LET i == Min(ok)
              k == Min({j \in 1..Len(TentativasData1) : CasaData1(s, i, TentativasData1[j])})
          IN Algum(GruposData1(s, i, TentativasData1[k]))

BuscaData2(s) ==
  LET ok == {i \in 1..Len(s) : \E k \in 1..Len(TentativasData2) : CasaData2(s, i, TentativasData2[k])}
  IN IF ok = {} THEN Nenhum
     ELSE LET i == Min(ok)
              k == Min({j \in 1..Len(TentativasData2) : CasaData2(s, i, TentativasData2[j])})
          IN Algum(GruposData2(s, i, TentativasData2[k]))

BuscaData3(s) ==
  LET ok == {i \in 1..Len(s) : CasaData3(s, i)}
  IN IF ok = {} THEN Nenhum
     ELSE Algum(<<SubSeq(s, Min(ok), Min(ok) + 1), SubSeq(s, Min(ok) + 2, Min(ok) + 3),
                  SubSeq(s, Min(ok) + 4, Min(ok) + 7)>>)

\* the ISO date of the groups of a match, or None
DataDosGrupos(m) ==
  IF m = Nenhum THEN Nenhum
  ELSE NormalizarData(IntDe(m[1][1]), IntDe(m[1][2]), IntDe(m[1][3]))

\* the fall-back on the digits with the date written as it comes
DataDosDigitosSemFaixa(after) ==
  IF Len(SoDigitos(after)) >= 8
    THEN Algum(SubSeq(SoDigitos(after), 5, 8) \o <<"-">> \o SubSeq(SoDigitos(after), 3, 4) \o <<"-">>
               \o SubSeq(SoDigitos(after), 1, 2))
  ELSE Nenhum

\* the fall-back of _encontrar_data_nascimento on the digits of the value
DataDosDigitos(after) ==
  LET digits == SoDigitos(after)
  IN IF Len(digits) >= 8
       THEN NormalizarData(IntDe(SubSeq(digits, 1, 2)), IntDe(SubSeq(digits, 3, 4)), IntDe(SubSeq(digits, 5, 8)))
     ELSE IF Len(digits) = 6
       THEN NormalizarData(IntDe(SubSeq(digits, 1, 2)), IntDe(SubSeq(digits, 3, 4)), IntDe(SubSeq(digits, 5, 6)))
     ELSE Nenhum

\* what the first line with the label gives when only the pattern with two
\* separators is tried
DataDeLinhaSoSeparadores(line) == DataDosGrupos(BuscaData1(Ou(ExtrairValorPosLabel(line), line)))

\* what the first line with the label gives
DataDeLinha(line) ==
  LET after == Ou(ExtrairValorPosLabel(line), line)
  IN IF DataDosGrupos(BuscaData1(after)) # Nenhum THEN DataDosGrupos(BuscaData1(after))
     ELSE IF DataDosGrupos(BuscaData2(after)) # Nenhum THEN DataDosGrupos(BuscaData2(after))
     ELSE IF DataDosGrupos(BuscaData3(after)) # Nenhum THEN DataDosGrupos(BuscaData3(after))
     ELSE DataDosDigitos(after)

DATA_DE_NASCIMENTO ==
  <<"d", "a", "t", "a", " ", "d", "e", " ", "n", "a", "s", "c", "i", "m", "e", "n", "t", "o">>

\* the birth date of the first labelled line that gives one
EncontrarDataNascimentoAteAchar(bloco) ==
  PrimeiroCasamento([k \in 1..Len(LinhasUteis(bloco)) |->
    IF Contem(Lowered(LinhasUteis(bloco)[k]), DATA_DE_NASCIMENTO) THEN DataDeLinha(LinhasUteis(bloco)[k])
    ELSE Nenhum])

\* _encontrar_data_nascimento: the first line with the label decides
EncontrarDataNascimento(bloco) ==
  LET ls == LinhasUteis(bloco)
      ks == {k \in 1..Len(ls) : Contem(Lowered(ls[k]), DATA_DE_NASCIMENTO)}
  IN IF ks = {} THEN Nenhum ELSE DataDeLinha(ls[Min(ks)])

NOME == <<"n", "o", "m", "e">>
MAE == <<"m", "a", "e">>
PAI == <<"p", "a", "i">>

\* re.search(r"nome\s+(.+)$", lowered).start(1), 1-based, or 0: after "nome"
\* the white space is taken whole when a character follows it, and all but
\* its last character otherwise
InicioAposNome(lowered) ==
  LET n == Len(lowered)
      fimBr(i) == FimDaSerie(lowered, i + 4, Espacos)
      casa(i) == /\ OcorreEmCI(lowered, NOME, i)
                 /\ fimBr(i) > i + 4
                 /\ (fimBr(i) <= n \/ fimBr(i) > i + 5)
      ok == {i \in 1..n : casa(i)}
  IN IF ok = {} THEN 0
     ELSE IF fimBr(Min(ok)) <= n THEN fimBr(Min(ok)) ELSE n

\* what one line that mentions nome (and neither mae nor pai) gives: the value
\* after the colon, else the raw line from where the fall-back pattern found
\* the value in the lowered line
NomeDeLinha(raw_line) ==
  LET line == Strip(raw_line)
      valor == ExtrairValorPosLabel(line)
      ini == InicioAposNome(Lowered(line))
  IN IF valor # Nenhum THEN valor
     ELSE IF ini = 0 THEN Nenhum
     ELSE IF Strip(Fatia(raw_line, ini, Len(raw_line))) = <<>> THEN Nenhum
     ELSE Algum(Strip(Fatia(raw_line, ini, Len(raw_line))))

\* _encontrar_nome_profissional
EncontrarNomeProfissional(bloco) ==
  LET ls == LinhasCruas(bloco)
      serve(k) == /\ Contem(Lowered(Strip(ls[k])), NOME)
                  /\ ~Contem(Lowered(Strip(ls[k])), MAE)
                  /\ ~Contem(Lowered(Strip(ls[k])), PAI)
                  /\ NomeDeLinha(ls[k]) # Nenhum
      ks == {k \in 1..Len(ls) : serve(k)}
  IN IF ks = {} THEN Nenhum ELSE NomeDeLinha(ls[Min(ks)])

(***************************************************************************)
(* The multi-valued extractors                                             *)
(***************************************************************************)

\* str.strip(chars)
StripChars(s, chars) ==
  LET ficam == {i \in 1..Len(s) : s[i] \notin chars}
  IN IF ficam = {} THEN <<>> ELSE SubSeq(s, Min(ficam), Max(ficam))

\* _norm_space
NormSpace(s) == StripChars(ColapsaEspacos(s), {" ", ";", ".", "-"})

\* the trimmed non-empty values, the first of each value as written
DedupExato(seq) ==
  LET val(i) == Strip(seq[i])
      fica(i) == /\ val(i) # <<>>
                 /\ \A j \in 1..(i - 1) : val(j) # val(i)
      idx == SelectSeq(Indices(Len(seq)), fica)
  IN [k \in 1..Len(idx) |-> val(idx[k])] \o <<>>

\* _dedup: the trimmed non-empty values, the first of each case-folded value
Dedup(seq) ==
  LET val(i) == Strip(seq[i])
      fica(i) == /\ val(i) # <<>>
                 /\ \A j \in 1..(i - 1) : Lower(val(j)) # Lower(val(i))
      idx == SelectSeq(Indices(Len(seq)), fica)
  IN [k \in 1..Len(idx) |-> val(idx[k])] \o <<>>

\* the first lines of extract_estado_civil: no-break spaces become spaces and
\* every run of spaces and tabs becomes one space
NormEstadoCivil(text) ==
  LET branco(i) == text[i] \in {" ", "\t", "NBSP"}
      fica(i) == ~(branco(i) /\ i > 1 /\ branco(i - 1))
      idx == SelectSeq(Indices(Len(text)), fica)
  IN [k \in 1..Len(idx) |-> IF branco(idx[k]) THEN " " ELSE text[idx[k]]] \o <<>>

ESTADO == <<"e", "s", "t", "a", "d", "o">>
CIVIL == <<"c", "i", "v", "i", "l">>

\* pat_estado matched at p: <<>> when it does not match, else <<g, e, fim>>
\* with s[g..e] the group and fim the end (exclusive) of the match
EstadoCivilEm(s, p) ==
  LET n == Len(s)
      a == IF p <= n /\ s[p] = "-" THEN FimDaSerie(s, p + 1, Espacos) ELSE p
      b == FimDaSerie(s, a + 6, Espacos)
      c == FimDaSerie(s, b + 5, Espacos)
      g == FimDaSerie(s, c + 1, Espacos)
      e == Max({i \in g..(FimDaLinha(s, g) - 1) : s[i] \notin Espacos})
      r == FimDaSerie(s, e + 1, Espacos)
      soltos == {i \in (c + 1)..n : s[i] # "\n"}
  IN IF ~(/\ p >= 1 /\ p <= n
          /\ (p = 1 \/ s[p - 1] = "\n")
          /\ OcorreEmCI(s, ESTADO, a)
          /\ OcorreEmCI(s, CIVIL, b)
          /\ c <= n /\ s[c] = ":") THEN <<>>
     ELSE IF g <= n
       THEN <<g, e, IF r > n THEN n + 1 ELSE Max({i \in (e + 1)..(r - 1) : s[i] = "\n"})>>
     ELSE IF soltos = {} THEN <<>>
     ELSE <<Max(soltos), Max(soltos), n + 1>>

\* [m.group(1).strip() for m in pat_estado.finditer(norm)], from position pos
RECURSIVE EstadosCivisDe(_, _)
EstadosCivisDe(s, pos) ==
  LET ok == {p \in pos..Len(s) : EstadoCivilEm(s, p) # <<>>}
  IN IF ok = {} THEN <<>>
     ELSE LET m == EstadoCivilEm(s, Min(ok))
          IN <<Strip(SubSeq(s, m[1], m[2]))>> \o EstadosCivisDe(s, m[3])

\* extract_estado_civil
ExtractEstadoCivil(text) == Dedup(EstadosCivisDe(NormEstadoCivil(text), 1))

CRM_ES == <<"c", "r", "m", "-", "e", "s">>

\* the pattern of the CRM-ES number matched at p: <<>> or <<g, e>>
CrmEm(s, p) ==
  LET n == Len(s)
      q1 == FimDaSerie(s, p + 6, Espacos)
      q2 == IF q1 <= n /\ s[q1] \in {":", "-"} THEN q1 + 1 ELSE q1
      q3 == FimDaSerie(s, q2, Espacos)
      r == FimDaSerie(s, q3, Digitos \cup {"."})
  IN IF OcorreEmCI(s, CRM_ES, p) /\ r > q3 THEN <<q3, r - 1>> ELSE <<>>

\* the CRM-ES numbers of the text, in order
Crms(text) ==
  LET casa(p) == CrmEm(text, p) # <<>>
      ps == SelectSeq(Indices(Len(text)), casa)
  IN [k \in 1..Len(ps) |-> SubSeq(text, CrmEm(text, ps[k])[1], CrmEm(text, ps[k])[2])] \o <<>>

EmailLocal == LetrasAscii \cup Digitos \cup {".", "_", "%", "+", "-"}
EmailDominio == LetrasAscii \cup Digitos \cup {".", "-"}

\* the e-mail pattern around the at-sign at a, searched from pos: <<>> or
\* <<ini, fim>> with fim exclusive
EmailEm(s, pos, a) ==
  LET n == Len(s)
      ini == Min({j \in pos..(a - 1) : \A k \in j..(a - 1) : s[k] \in EmailLocal} \cup {a})
      r == FimDaSerie(s, a + 1, EmailDominio)
      ks == {k \in (a + 2)..(r - 1) : /\ s[k] = "."
                                      /\ k + 2 <= n
                                      /\ s[k + 1] \in LetrasAscii
                                      /\ s[k + 2] \in LetrasAscii}
  IN IF a > n \/ s[a] # "@" \/ ini = a \/ ks = {} THEN <<>>
     ELSE <<ini, FimDaSerie(s, Max(ks) + 1, LetrasAscii)>>

\* the e-mail addresses of the text from position pos, in order
RECURSIVE EmailsDe(_, _)
EmailsDe(s, pos) ==
  LET ok == {a \in pos..Len(s) : EmailEm(s, pos, a) # <<>>}
  IN IF ok = {} THEN <<>>
     ELSE LET m == EmailEm(s, pos, Min(ok))
          IN <<SubSeq(s, m[1], m[2] - 1)>> \o EmailsDe(s, m[2])

CARGA == <<"c", "a", "r", "g", "a">>
HOR == <<"h", "o", "r">>
RIA == <<"r", "i", "a">>
SEMANAL == <<"s", "e", "m", "a", "n", "a", "l">>

\* the weekly-hours pattern matched at p: <<>> or <<g, fim>>, the group being
\* s[g..fim - 1]
CargaEm(s, p) ==
  LET n == Len(s)
      q1 == FimDaSerie(s, p + 5, Espacos)
      q2 == FimDaSerie(s, q1 + 7, Espacos)
      q3 == FimDaSerie(s, q2 + 7, Espacos)
      g == FimDaSerie(s, q3 + 1, Espacos)
      soltos == {i \in (q3 + 1)..n : s[i] # "\n"}
  IN IF ~(/\ OcorreEmCI(s, CARGA, p)
          /\ q1 > p + 5
          /\ OcorreEmCI(s, HOR, q1)
          /\ q1 + 3 <= n /\ s[q1 + 3] \in {"a", "A", "a'", "A'"}
          /\ OcorreEmCI(s, RIA, q1 + 4)
          /\ q2 > q1 + 7
          /\ OcorreEmCI(s, SEMANAL, q2)
          /\ q3 <= n /\ s[q3] \in {":", "-"}) THEN <<>>
     ELSE IF g <= n THEN <<g, FimDaLinha(s, g)>>
     ELSE IF soltos = {} THEN <<>>
     ELSE <<Max(soltos), Max(soltos) + 1>>

\* the groups of the weekly-hours pattern from position pos, in order
RECURSIVE CargasDe(_, _)
CargasDe(s, pos) ==
  LET ok == {p \in pos..Len(s) : CargaEm(s, p) # <<>>}
  IN IF ok = {} THEN <<>>
     ELSE LET m == CargaEm(s, Min(ok))
          IN <<SubSeq(s, m[1], m[2] - 1)>> \o CargasDe(s, m[2])

\* the weekly hours of the text: every group, normalised, when not empty
CargasHorarias(text) ==
  LET gs == CargasDe(text, 1)
      cheio(g) == NormSpace(g) # <<>>
      bons == SelectSeq(gs, cheio)
  IN [k \in 1..Len(bons) |-> NormSpace(bons[k])] \o <<>>

(***************************************************************************)
(* extrair_informacoes_rg_ci: each pattern is an operator that gives, for   *)
(* a start p, the span <<g, e>> of its group, or <<>> when the pattern      *)
(* does not match at p                                                      *)
(***************************************************************************)

\* the character of s at i, or a character of no class beyond the ends
Car(s, i) == IF i >= 1 /\ i <= Len(s) THEN s[i] ELSE "FIM"

\* re.search: the group of the leftmost match of a pattern, or <<>>
Busca(s, Casa(_, _)) == PrimeiroCasamento([p \in 1..Len(s) |-> Casa(s, p)])

\* the text of a group span
Grupo(s, m) == SubSeq(s, m[1], m[2])

\* literal pieces, each followed by white space of at least a given length:
\* the position after the last white space, or 0 when a piece does not match
RECURSIVE AposPecas(_, _, _)
AposPecas(s, p, pecas) ==
  IF pecas = <<>> THEN p
  ELSE LET q == p + Len(pecas[1][1])
           r == FimDaSerie(s, q, Espacos)
       IN IF OcorreEmCI(s, pecas[1][1], p) /\ r - q >= pecas[1][2]
            THEN AposPecas(s, r, Tail(pecas))
            ELSE 0

\* str.upper per character
Maiuscula(c) ==
  IF \E C \in Maiusculas : MinusculaDe[C] = c
    THEN CHOOSE C \in Maiusculas : MinusculaDe[C] = c
    ELSE c

Upper(s) == [i \in 1..Len(s) |-> Maiuscula(s[i])] \o <<>>

\* the class [A-ZÀ-Ú] under re.IGNORECASE
LetrasCi == LetrasAscii \cup Acentuadas

RgClasse == Digitos \cup {"."}

\* a group of exactly two word characters at g
DuasDePalavra(s, g) ==
  IF g >= 1 /\ Car(s, g) \in Palavra /\ Car(s, g + 1) \in Palavra THEN <<g, g + 1>> ELSE <<>>

\* the group ([A-ZÀ-Ú]{2,10}) at g when nothing constrains what follows
OrgaoLivre(s, g) ==
  LET r == FimDaSerie(s, g, LetrasCi)
  IN IF g >= 1 /\ r - g >= 2 THEN <<g, Min({r, g + 10}) - 1>> ELSE <<>>

\* the group ([A-ZÀ-Ú]{2,10}) at g followed by \s*/ : the position after the
\* slash, or 0
OrgaoBarra(s, g) ==
  LET r == FimDaSerie(s, g, LetrasCi)
      b == FimDaSerie(s, r, Espacos)
  IN IF g >= 1 /\ r - g >= 2 /\ r - g <= 10 /\ Car(s, b) = "/" THEN b + 1 ELSE 0

\* the group (\d{2}/\d{2}/\d{4}) at g
DataCi(s, g) ==
  IF /\ g >= 1
     /\ SaoDigitos(s, g, g + 1) /\ Car(s, g + 2) = "/"
     /\ SaoDigitos(s, g + 3, g + 4) /\ Car(s, g + 5) = "/"
     /\ SaoDigitos(s, g + 6, g + 9)
    THEN <<g, g + 9>> ELSE <<>>

\* RG\s*\([^)]*\):\s* at p: the position after it, or 0
RgPrefixo(s, p) ==
  LET q == FimDaSerie(s, p + 2, Espacos)
      c == Find(s, <<")">>, q + 1)
  IN IF OcorreEmCI(s, <<"r", "g">>, p) /\ Car(s, q) = "(" /\ c # 0 /\ Car(s, c + 1) = ":"
       THEN FimDaSerie(s, c + 2, Espacos) ELSE 0

NUMERO == <<"n", "u'", "m", "e", "r", "o">>
IDENTIDADE == <<"i", "d", "e", "n", "t", "i", "d", "a", "d", "e", ":">>

\* the group ([0-9.]+) at g, a position that is 0 when what precedes the
\* group did not match
NumeroEm(s, g) ==
  LET r == FimDaSerie(s, g, RgClasse)
  IN IF g # 0 /\ r > g THEN <<g, r - 1>> ELSE <<>>

\* the group ([0-9.]+) at g when -\w{1,3} follows it
NumeroComSufixoEm(s, g) ==
  LET r == FimDaSerie(s, g, RgClasse)
  IN IF g # 0 /\ r > g /\ Car(s, r) = "-" /\ Car(s, r + 1) \in Palavra THEN <<g, r - 1>> ELSE <<>>

\* Número\s+identidade:\s*([0-9.]+)
Rg1(s, p) == NumeroEm(s, AposPecas(s, p, <<<<NUMERO, 1>>, <<IDENTIDADE, 0>>>>))

\* RG\s*\([^)]*\):\s*([0-9.]+)-\w{1,3}
Rg2(s, p) == NumeroComSufixoEm(s, RgPrefixo(s, p))

\* RG\s*\([^)]*\):\s*([0-9.]+)
Rg3(s, p) == NumeroEm(s, RgPrefixo(s, p))

\* m.group(1).replace('.', '')
SemPonto(s) ==
  LET naoPonto(c) == c # "."
  IN SelectSeq(s, naoPonto)

\* [m.group(1).replace('.', '')] for the match m, [] when there is none
RgDoCasamento(texto, m) == IF m = <<>> THEN <<>> ELSE <<SemPonto(Grupo(texto, m))>>

\* rg: the patterns in order, the first that matches gives the value
RgDe(texto) ==
  RgDoCasamento(texto, PrimeiroCasamento(<<Busca(texto, Rg1), Busca(texto, Rg2),
                                           Busca(texto, Rg3)>>))

\* UF\s*CI:\s*(\w{2})
Uf1(s, p) == DuasDePalavra(s, AposPecas(s, p, <<<<<<"u", "f">>, 0>>, <<<<"c", "i", ":">>, 0>>>>))

\* the group (\w{2}) after [0-9.]+- at g, a position that is 0 when what
\* precedes the number did not match
UfAposNumero(s, g) ==
  LET r == FimDaSerie(s, g, RgClasse)
  IN IF g # 0 /\ r > g /\ Car(s, r) = "-" THEN DuasDePalavra(s, r + 1) ELSE <<>>

\* RG\s*\([^)]*\):\s*[0-9.]+-(\w{2})
Uf2(s, p) == UfAposNumero(s, RgPrefixo(s, p))

\* -\s*(\w{2})\s*/\s*\w+\s*/
Uf3(s, p) ==
  LET g == FimDaSerie(s, p + 1, Espacos)
      b == FimDaSerie(s, g + 2, Espacos)
      w == FimDaSerie(s, b + 1, Espacos)
      f == FimDaSerie(s, w, Palavra)
  IN IF /\ Car(s, p) = "-"
        /\ DuasDePalavra(s, g) # <<>>
        /\ Car(s, b) = "/"
        /\ f > w
        /\ Car(s, FimDaSerie(s, f, Espacos)) = "/"
       THEN <<g, g + 1>> ELSE <<>>

ORGAO == <<"o'", "r", "g", "a~", "o">>

\* -\s*(\w{2})\s*,\s*ÓRGÃO
Uf4(s, p) ==
  LET g == FimDaSerie(s, p + 1, Espacos)
      b == FimDaSerie(s, g + 2, Espacos)
  IN IF /\ Car(s, p) = "-"
        /\ DuasDePalavra(s, g) # <<>>
        /\ Car(s, b) = ","
        /\ OcorreEmCI(s, ORGAO, FimDaSerie(s, b + 1, Espacos))
       THEN <<g, g + 1>> ELSE <<>>

\* [m.group(1).upper()] for the match m, [] when there is none
MaiusculoDoCasamento(texto, m) == IF m = <<>> THEN <<>> ELSE <<Upper(Grupo(texto, m))>>

\* uf_ci: the patterns in order, the first that matches gives the value
UfCiDe(texto) ==
  MaiusculoDoCasamento(texto, PrimeiroCasamento(<<Busca(texto, Uf1), Busca(texto, Uf2),
                                                  Busca(texto, Uf3), Busca(texto, Uf4)>>))

EMISSOR == <<"e", "m", "i", "s", "s", "o", "r">>

\* Órgão\s+emissor\s+CI:\s*([A-ZÀ-Ú]{2,10})
Orgao1(s, p) ==
  OrgaoLivre(s, AposPecas(s, p, <<<<ORGAO, 1>>, <<EMISSOR, 1>>, <<<<"c", "i", ":">>, 0>>>>))

\* /\s*([A-ZÀ-Ú]{2,10})\s*/\s*\d{2}/\d{2}/\d{4}
Orgao2(s, p) ==
  LET g == FimDaSerie(s, p + 1, Espacos)
      b == OrgaoBarra(s, g)
  IN IF Car(s, p) = "/" /\ b # 0 /\ DataCi(s, FimDaSerie(s, b, Espacos)) # <<>>
       THEN <<g, FimDaSerie(s, g, LetrasCi) - 1>> ELSE <<>>

\* ÓRGÃO\s+EMISSOR\s+([A-ZÀ-Ú]{2,10})
Orgao3(s, p) == OrgaoLivre(s, AposPecas(s, p, <<<<ORGAO, 1>>, <<EMISSOR, 1>>>>))

\* \b\w{2}\s*/\s*([A-ZÀ-Ú]{2,10})\s*/
Orgao4(s, p) ==
  LET b == FimDaSerie(s, p + 2, Espacos)
      g == FimDaSerie(s, b + 1, Espacos)
  IN IF /\ Fronteira(s, p)
        /\ DuasDePalavra(s, p) # <<>>
        /\ Car(s, b) = "/"
        /\ OrgaoBarra(s, g) # 0
       THEN <<g, FimDaSerie(s, g, LetrasCi) - 1>> ELSE <<>>

\* orgao_emissor_ci: the patterns in order, the first that matches gives the
\* value
OrgaoEmissorCiDe(texto) ==
  MaiusculoDoCasamento(texto, PrimeiroCasamento(<<Busca(texto, Orgao1), Busca(texto, Orgao2),
                                                  Busca(texto, Orgao3), Busca(texto, Orgao4)>>))

DATA == <<"d", "a", "t", "a">>
DE == <<"d", "e">>

\* Data\s+de\s+emissão\s+CI:\s*(\d{2}/\d{2}/\d{4})
DataEmissao1(s, p) ==
  DataCi(s, AposPecas(s, p, <<<<DATA, 1>>, <<DE, 1>>, <<<<"e", "m", "i", "s", "s", "a~", "o">>, 1>>,
                              <<<<"c", "i", ":">>, 0>>>>))

\* /\s*\w+\s*/\s*(\d{2}/\d{2}/\d{4})
DataEmissao2(s, p) ==
  LET w == FimDaSerie(s, p + 1, Espacos)
      f == FimDaSerie(s, w, Palavra)
      b == FimDaSerie(s, f, Espacos)
  IN IF Car(s, p) = "/" /\ f > w /\ Car(s, b) = "/"
       THEN DataCi(s, FimDaSerie(s, b + 1, Espacos)) ELSE <<>>

\* DATA\s+EMISS[ÃA]O\s+(\d{2}/\d{2}/\d{4})
DataEmissao3(s, p) ==
  DataCi(s, PrimeiroNaoZero(
              <<AposPecas(s, p, <<<<DATA, 1>>, <<<<"e", "m", "i", "s", "s", "a~", "o">>, 1>>>>),
                AposPecas(s, p, <<<<DATA, 1>>, <<<<"e", "m", "i", "s", "s", "a", "o">>, 1>>>>)>>))

\* [m.group(1)] for the match m, [] when there is none
GrupoDoCasamento(texto, m) == IF m = <<>> THEN <<>> ELSE <<Grupo(texto, m)>>

\* data_emissao_ci: the patterns in order, the first that matches gives the
\* value
DataEmissaoCiDe(texto) ==
  GrupoDoCasamento(texto, PrimeiroCasamento(<<Busca(texto, DataEmissao1),
                                              Busca(texto, DataEmissao2),
                                              Busca(texto, DataEmissao3)>>))

NASCIMENTO == <<"n", "a", "s", "c", "i", "m", "e", "n", "t", "o", ":">>

\* the group that follows label:\s* at g0 (the position after the colon)
\* when the group is a run of characters outside the set fora: the white space
\* is taken whole when a character of the group follows it, and up to its last
\* character that is not a line break otherwise
GrupoAposBrancos(s, g0, fora) ==
  LET n == Len(s)
      g == FimDaSerie(s, g0, Espacos)
      soltos == {i \in g0..(g - 1) : s[i] \notin fora}
      ini == IF g <= n /\ s[g] \notin fora THEN g
             ELSE IF soltos = {} THEN 0 ELSE Max(soltos)
  IN IF ini = 0 THEN <<>>
     ELSE <<ini, Min({j \in ini..n : s[j] \in fora} \cup {n + 1}) - 1>>

\* nascimento:\s* and the group after it, at c: c is 0 when what precedes did
\* not match
MunicipioApos(s, c, fora) ==
  IF c # 0 /\ OcorreEmCI(s, NASCIMENTO, c)
    THEN GrupoAposBrancos(s, c + Len(NASCIMENTO), fora) ELSE <<>>

\* Município\s+de\s+nascimento:\s*([^\n-]+)
Municipio1(s, p) ==
  MunicipioApos(s, AposPecas(s, p, <<<<<<"m", "u", "n", "i", "c", "i'", "p", "i", "o">>, 1>>,
                                     <<DE, 1>>>>),
                {"\n", "-"})

\* MUNIC[IÍ]PIO\s+DE\s+NASCIMENTO:\s*([^\n]+)
Municipio2(s, p) ==
  MunicipioApos(s, PrimeiroNaoZero(
                     <<AposPecas(s, p, <<<<<<"m", "u", "n", "i", "c", "i'", "p", "i", "o">>, 1>>,
                                         <<DE, 1>>>>),
                       AposPecas(s, p, <<<<<<"m", "u", "n", "i", "c", "i", "p", "i", "o">>, 1>>,
                                         <<DE, 1>>>>)>>),
                {"\n"})

\* str.rstrip(chars)
RStripChars(s, chars) ==
  LET ficam == {i \in 1..Len(s) : s[i] \notin chars}
  IN IF ficam = {} THEN <<>> ELSE SubSeq(s, 1, Max(ficam))

\* m.group(1).strip().rstrip(' .;') for the match m, None when there is none
MunicipioDoCasamento(texto, m) ==
  IF m = <<>> THEN Nenhum ELSE Algum(RStripChars(Strip(Grupo(texto, m)), {" ", ".", ";"}))

\* municipio: the patterns in order, the first that matches gives the value
MunicipioDe(texto) ==
  MunicipioDoCasamento(texto, PrimeiroCasamento(<<Busca(texto, Municipio1),
                                                  Busca(texto, Municipio2)>>))

\* nascimento:\s*(\w{2}) at c: c is 0 when what precedes did not match
UfAposNascimento(s, c) ==
  IF c # 0 /\ OcorreEmCI(s, NASCIMENTO, c)
    THEN DuasDePalavra(s, FimDaSerie(s, c + Len(NASCIMENTO), Espacos)) ELSE <<>>

\* UF\s*DE\s+NASCIMENTO:\s*(\w{2})
UfNasc1(s, p) == UfAposNascimento(s, AposPecas(s, p, <<<<<<"u", "f">>, 0>>, <<DE, 1>>>>))

\* UF\s+de\s+nascimento:\s*(\w{2})
UfNasc2(s, p) == UfAposNascimento(s, AposPecas(s, p, <<<<<<"u", "f">>, 1>>, <<DE, 1>>>>))

\* UF:\s*(\w{2})\b
UfNasc3(s, p) ==
  LET g == FimDaSerie(s, p + 3, Espacos)
  IN IF OcorreEmCI(s, <<"u", "f", ":">>, p) /\ DuasDePalavra(s, g) # <<>> /\ Car(s, g + 2) \notin Palavra
       THEN <<g, g + 1>> ELSE <<>>

\* m.group(1).upper() for the match m, None when there is none
UfDoCasamento(texto, m) == IF m = <<>> THEN Nenhum ELSE Algum(Upper(Grupo(texto, m)))

\* uf_nasc: the patterns in order, the first that matches gives the value
UfNascDe(texto) ==
  UfDoCasamento(texto, PrimeiroCasamento(<<Busca(texto, UfNasc1), Busca(texto, UfNasc2),
                                           Busca(texto, UfNasc3)>>))

\* the birthplace with the state alone when there is no municipality
NaturalidadeOuUf(municipio, uf_nasc) ==
  IF municipio # <<>> /\ uf_nasc # <<>> THEN <<municipio \o <<" ", "-", " ">> \o uf_nasc>>
  ELSE IF municipio # <<>> THEN <<municipio>>
  ELSE IF uf_nasc # <<>> THEN <<uf_nasc>>
  ELSE <<>>

\* "municipio - UF", or the municipio alone, or nothing
Naturalidade(municipio, uf_nasc) ==
  IF municipio # <<>> /\ uf_nasc # <<>> THEN <<municipio \o <<" ", "-", " ">> \o uf_nasc>>
  ELSE IF municipio # <<>> THEN <<municipio>>
  ELSE <<>>

\* the birthplace
EnderecoNascimentoDe(texto) ==
  Naturalidade(Ou(MunicipioDe(texto), <<>>), Ou(UfNascDe(texto), <<>>))

RgCiVazio ==
  [rg |-> <<>>, uf_ci |-> <<>>, orgao_emissor_ci |-> <<>>, data_emissao_ci |-> <<>>,
   endereco_nascimento |-> <<>>]

\* extrair_informacoes_rg_ci
ExtrairInformacoesRgCi(texto) ==
  IF texto = <<>> THEN RgCiVazio
  ELSE [rg |-> RgDe(texto),
        uf_ci |-> UfCiDe(texto),
        orgao_emissor_ci |-> OrgaoEmissorCiDe(texto),
        data_emissao_ci |-> DataEmissaoCiDe(texto),
        endereco_nascimento |-> EnderecoNascimentoDe(texto)]

(***************************************************************************)
(* extract_address_email_contacts                                          *)
(***************************************************************************)

\* the class [-–•] that may open a line
Marcadores == {"-", "ENDASH", "BULLET"}

\* p is the start of a line (^ under re.MULTILINE)
InicioDeLinha(s, p) == p = 1 \/ (p >= 2 /\ p <= Len(s) + 1 /\ s[p - 1] = "\n")

ENDERE == <<"e", "n", "d", "e", "r", "e">>
COMPLETO == <<"c", "o", "m", "p", "l", "e", "t", "o">>
COM == <<"c", "o", "m">>
CEP == <<"c", "e", "p">>

\* (?:\s+completo)? at c: the position after it
AposCompleto(s, c) ==
  LET w == FimDaSerie(s, c, Espacos)
  IN IF w > c /\ OcorreEmCI(s, COMPLETO, w) THEN w + Len(COMPLETO) ELSE c

\* (?:\s+com\s+CEP)? at c: the position after it
AposComCep(s, c) ==
  LET w == FimDaSerie(s, c, Espacos)
      v == FimDaSerie(s, w + Len(COM), Espacos)
  IN IF w > c /\ OcorreEmCI(s, COM, w) /\ v > w + Len(COM) /\ OcorreEmCI(s, CEP, v)
       THEN v + Len(CEP) ELSE c

\* the lookahead (?=^\s*CEP\b|$) at q
FimDeEndereco(s, q) ==
  \/ q = Len(s) + 1
  \/ Car(s, q) = "\n"
  \/ /\ InicioDeLinha(s, q)
     /\ OcorreEmCI(s, CEP, FimDaSerie(s, q, Espacos))
     /\ Car(s, FimDaSerie(s, q, Espacos) + Len(CEP)) \notin Palavra

\* [-–•]? and the white space after it, at a: the position after them
AposUmMarcador(s, a) == IF Car(s, a) \in Marcadores THEN FimDaSerie(s, a + 1, Espacos) ELSE a

\* the last character of the line of g that is not white space, g when there
\* is none: where the lazy group that starts at g stops
FimDoGrupo(s, g) == Max({i \in g..(FimDaLinha(s, g) - 1) : s[i] \notin Espacos} \cup {g})

\* the end (exclusive) of the match whose group stops at e
FimDoCasamento(s, e) == Max({q \in (e + 1)..FimDaSerie(s, e + 1, Espacos) : FimDeEndereco(s, q)})

\* endereco_pat matched at the line start p: <<>> or <<g, e, fim>>, the group
\* being s[g..e] and fim the end (exclusive) of the match
EnderecoEm(s, p) ==
  Seja(AposUmMarcador(s, FimDaSerie(s, p, Espacos)), LAMBDA b :
    Seja(FimDaSerie(s, AposComCep(s, AposCompleto(s, b + 8)), Espacos), LAMBDA d :
      IF ~(/\ InicioDeLinha(s, p)
           /\ OcorreEmCI(s, ENDERE, b)
           /\ Car(s, b + 6) \in {"c", "C", "c,", "C,"}
           /\ Car(s, b + 7) \in {"o", "O"}
           /\ Car(s, d) \in {":", "-"}
           /\ d < Len(s)) THEN <<>>
      ELSE Seja(Min({FimDaSerie(s, d + 1, Espacos), Len(s)}), LAMBDA g :
             Seja(FimDoGrupo(s, g), LAMBDA e : <<g, e, FimDoCasamento(s, e)>>))))

\* the groups of the matches ms
GruposDe(s, ms) == [k \in 1..Len(ms) |-> SubSeq(s, ms[k][1], ms[k][2])] \o <<>>

\* the groups of endereco_pat from position pos, in order
EnderecosDe(s, pos) == GruposDe(s, Casamentos([p \in 1..Len(s) |-> EnderecoEm(s, p)], pos))

\* the start of the white space that ends before k
InicioDosBrancos(addr, k) == Min({j \in 1..k : \A i \in j..(k - 1) : addr[i] \in Espacos})

\* addr up to t1, or up to the punctuation mark before t1 and the white
\* space before the mark
AtePontuacao(addr, t1) ==
  SubSeq(addr, 1, (IF Car(addr, t1 - 1) \in {";", ",", "."} THEN InicioDosBrancos(addr, t1 - 1)
                   ELSE t1) - 1)

\* re.sub(r"\s*[;,.]?\s*CEP\b.*$", "", addr): addr up to the white space and
\* the punctuation mark that precede the first CEP that ends a word
SemCep(addr) ==
  LET ks == {k \in 1..Len(addr) : OcorreEmCI(addr, CEP, k) /\ Car(addr, k + Len(CEP)) \notin Palavra}
  IN IF ks = {} THEN addr ELSE AtePontuacao(addr, InicioDosBrancos(addr, Min(ks)))

\* every group normalised and cut before its CEP
EnderecosLimpos(gs) == [k \in 1..Len(gs) |-> SemCep(NormSpace(gs[k]))] \o <<>>

\* the addresses of the text
Enderecos(text) == SelectSeq(EnderecosLimpos(EnderecosDe(text, 1)), NaoVazio)

\* (?:(?:\+?55)\s*) at p: the position after it, or 0
DdiFim(s, p) ==
  LET a == IF Car(s, p) = "+" THEN p + 1 ELSE p
  IN IF Car(s, a) = "5" /\ Car(s, a + 1) = "5" THEN FimDaSerie(s, a + 2, Espacos) ELSE 0

\* (?:\(?\d{2}\)?\s*) at p: the position after it, or 0
DddFim(s, p) ==
  LET a == IF Car(s, p) = "(" THEN p + 1 ELSE p
      b == IF Car(s, a + 2) = ")" THEN a + 3 ELSE a + 2
  IN IF SaoDigitos(s, a, a + 1) THEN FimDaSerie(s, b, Espacos) ELSE 0

\* \d{k}[-\s]?\d{4} at p: the position after it, or 0
LocalPartido(s, p, k) ==
  LET q == IF Car(s, p + k) \in ({"-"} \cup Espacos) THEN p + k + 1 ELSE p + k
  IN IF p >= 1 /\ SaoDigitos(s, p, p + k - 1) /\ SaoDigitos(s, q, q + 3) THEN q + 4 ELSE 0

\* the local number at p, the three ways in order: 5+4, 4+4, 8 or 9 digits
LocalFim(s, p) ==
  IF p < 1 THEN 0
  ELSE PrimeiroNaoZero(<<LocalPartido(s, p, 5),
                         LocalPartido(s, p, 4),
                         IF FimDaSerie(s, p, Digitos) - p >= 8
                           THEN Min({FimDaSerie(s, p, Digitos), p + 9}) ELSE 0>>)

\* the area code at the end ddi of the country code, when there is one
DddAposDdi(s, ddi) == IF ddi = 0 THEN 0 ELSE DddFim(s, ddi)

\* the local number after a prefix that ends at q, when the prefix matched
LocalApos(s, q) == IF q = 0 THEN 0 ELSE LocalFim(s, q)

\* PHONE_RX matched at p: the end (exclusive) of the match, or 0.  The engine
\* tries the country code before going without it, and the area code before
\* going without it.
PhoneEm(s, p) ==
  PrimeiroNaoZero(<<LocalApos(s, DddAposDdi(s, DdiFim(s, p))),
                    LocalApos(s, DdiFim(s, p)),
                    LocalApos(s, DddFim(s, p)),
                    LocalFim(s, p)>>)

\* every text of a sequence under _norm_space
Normalizados(ts) == [k \in 1..Len(ts) |-> NormSpace(ts[k])] \o <<>>

\* [_norm_space(m.group(0)) for m in PHONE_RX.finditer(s)], from position pos
PhonesDe(s, pos) == Normalizados(Trechos(s, [p \in 1..Len(s) |-> PhoneEm(s, p)], pos))

\* ^\s*[-–•]*\s* at the line start p: the position after it
AposMarcadores(s, p) == FimDaSerie(s, FimDaSerie(s, FimDaSerie(s, p, Espacos), Marcadores), Espacos)

\* \s*:?.*$ at c: the end (exclusive) of the line it runs to
FimDeRotulo(s, c) ==
  LET w == FimDaSerie(s, c, Espacos)
  IN FimDaLinha(s, IF Car(s, w) = ":" THEN w + 1 ELSE w)

TEL == <<"t", "e", "l">>

\* tel_line_pat matched at the line start p: the end of the match, or 0
TelLineEm(s, p) ==
  LET b == AposMarcadores(s, p)
      c == IF Car(s, b + 3) = "." THEN b + 4 ELSE b + 3
  IN IF InicioDeLinha(s, p) /\ OcorreEmCI(s, TEL, b) THEN FimDeRotulo(s, c) ELSE 0

CONTATO == <<"c", "o", "n", "t", "a", "t", "o">>
URGENCIA == <<"u", "r", "g", "e", "n", "c", "i", "a">>
URGENCIA_AC == <<"u", "r", "g", "e^", "n", "c", "i", "a">>

\* contato\s+de\s+urg[êe]ncia at p: the position after it, or 0
ContatoDeUrgencia(s, p) ==
  LET c == AposPecas(s, p, <<<<CONTATO, 1>>, <<DE, 1>>>>)
  IN IF c # 0 /\ (OcorreEmCI(s, URGENCIA, c) \/ OcorreEmCI(s, URGENCIA_AC, c))
       THEN c + Len(URGENCIA) ELSE 0

\* Em\s+caso\s+de\s+necessidade,\s*ligar\s+para at p: the position after it, or 0
EmCasoDeNecessidade(s, p) ==
  LET c == AposPecas(s, p, <<<<<<"e", "m">>, 1>>, <<<<"c", "a", "s", "o">>, 1>>, <<DE, 1>>,
                             <<<<"n", "e", "c", "e", "s", "s", "i", "d", "a", "d", "e", ",">>, 0>>,
                             <<<<"l", "i", "g", "a", "r">>, 1>>>>)
  IN IF c # 0 /\ OcorreEmCI(s, <<"p", "a", "r", "a">>, c) THEN c + 4 ELSE 0

\* Tel\.?\s*do\s+contato\s+de\s+urg[êe]ncia at p: the position after it, or 0
TelDoContato(s, p) ==
  LET c == IF Car(s, p + 3) = "." THEN p + 4 ELSE p + 3
      d == AposPecas(s, FimDaSerie(s, c, Espacos), <<<<<<"d", "o">>, 1>>>>)
  IN IF OcorreEmCI(s, TEL, p) /\ d # 0 THEN ContatoDeUrgencia(s, d) ELSE 0

\* the label of an emergency line at b, the three ways in order: the position
\* after it, or 0
RotuloDeEmergencia(s, b) ==
  PrimeiroNaoZero(<<ContatoDeUrgencia(s, b), EmCasoDeNecessidade(s, b), TelDoContato(s, b)>>)

\* the end of the line of a label that ends at c, 0 when there is no label
FimDaLinhaDoRotulo(s, c) == IF c = 0 THEN 0 ELSE FimDeRotulo(s, c)

\* emerg_line_pat matched at the line start p: the end of the match, or 0
EmergLineEm(s, p) ==
  IF InicioDeLinha(s, p) THEN FimDaLinhaDoRotulo(s, RotuloDeEmergencia(s, AposMarcadores(s, p)))
  ELSE 0

\* [m.group(0) for m in tel_line_pat.finditer(s)], from position pos
TelLinhasDe(s, pos) == Trechos(s, [p \in 1..Len(s) |-> TelLineEm(s, p)], pos)

\* [m.group(0) for m in emerg_line_pat.finditer(s)], from position pos
EmergLinhasDe(s, pos) == Trechos(s, [p \in 1..Len(s) |-> EmergLineEm(s, p)], pos)

\* the concatenation of a sequence of sequences
RECURSIVE Concat(_)
Concat(ss) == IF ss = <<>> THEN <<>> ELSE Head(ss) \o Concat(Tail(ss))

\* not re.search(r"contato\s+de\s+urg[êe]ncia", line_text)
SemUrgencia(l) == \A p \in 1..Len(l) : ContatoDeUrgencia(l, p) = 0

\* the telephones of every line of ls, in order
PhonesDasLinhas(ls) == Concat([k \in 1..Len(ls) |-> PhonesDe(ls[k], 1)])

\* the telephones of the lines that open with Tel and do not mention the
\* emergency contact
Telefones(text) == PhonesDasLinhas(SelectSeq(TelLinhasDe(text, 1), SemUrgencia))

\* the telephones of the emergency lines
TelefonesEmergencia(text) == PhonesDasLinhas(EmergLinhasDe(text, 1))

\* re.findall(r"\(([^)]+)\)", s), from position pos
RECURSIVE ParenTextsDe(_, _)
ParenTextsDe(s, pos) ==
  LET fecha(i) == Find(s, <<")">>, i + 1)
      ok == {i \in pos..Len(s) : s[i] = "(" /\ fecha(i) > i + 1}
  IN IF ok = {} THEN <<>>
     ELSE <<SubSeq(s, Min(ok) + 1, fecha(Min(ok)) - 1)>> \o ParenTextsDe(s, fecha(Min(ok)) + 1)

\* re.search(r"[A-Za-zÀ-ÿ]", t)
TemLetra(t) == \E i \in 1..Len(t) : t[i] \in LetrasCi

\* re.split(r"\d", tail, maxsplit=1)[0]
AntesDoDigito(tail) ==
  LET ds == {i \in 1..Len(tail) : tail[i] \in Digitos}
  IN IF ds = {} THEN tail ELSE Fatia(tail, 1, Min(ds) - 1)

\* what follows the colon at c, the whole line when c = 0
AposDoisPontos(line_text, c) ==
  IF c = 0 THEN line_text ELSE Fatia(line_text, c + 1, Len(line_text))

\* the text before the first digit of what follows the first colon of the
\* line (of the whole line when it has no colon), normalised and trimmed
CandidatoDeTipo(line_text) ==
  Strip(StripChars(NormSpace(AntesDoDigito(AposDoisPontos(line_text, Find(line_text, <<":">>, 1)))),
                   {" ", ":", ";", ".", ",", "-", "ENDASH", "BULLET", "("}))

\* the candidate when it has a letter
TipoDoCandidato(candidate) == IF TemLetra(candidate) THEN <<candidate>> ELSE <<>>

\* the kinds given the texts in parentheses that have a letter
TiposCom(line_text, ps) ==
  IF ps # <<>> THEN Normalizados(ps) ELSE TipoDoCandidato(CandidatoDeTipo(line_text))

\* the contact kinds of one emergency line
TiposDeLinha(line_text) == TiposCom(line_text, SelectSeq(ParenTextsDe(line_text, 1), TemLetra))

\* the contact kinds of every line of ls, in order
TiposDasLinhas(ls) == Concat([k \in 1..Len(ls) |-> TiposDeLinha(ls[k])])

TiposContatoEmergencia(text) == TiposDasLinhas(EmergLinhasDe(text, 1))

ContatosVazio ==
  [endereco |-> <<>>, crm |-> <<>>, email |-> <<>>, telefone |-> <<>>,
   telefone_emergencia |-> <<>>, tipo_contato_emergencia |-> <<>>,
   carga_horaria_semanal |-> <<>>]

\* extract_address_email_contacts
ExtractAddressEmailContacts(text) ==
  [endereco |-> Enderecos(text),
   crm |-> Crms(text),
   email |-> EmailsDe(text, 1),
   telefone |-> Telefones(text),
   telefone_emergencia |-> TelefonesEmergencia(text),
   tipo_contato_emergencia |-> TiposContatoEmergencia(text),
   carga_horaria_semanal |-> CargasHorarias(text)]

(***************************************************************************)
(* Module 4: the assembler, processar_documentos_medicos                   *)
(***************************************************************************)

PLACEHOLDER_CPF == <<"C", "P", "F", " ", "n", "a", "o", " ", "d", "e", "t", "e", "c", "t", "a", "d", "o">>
PLACEHOLDER_CNS == <<"C", "N", "S", " ", "n", "a", "o", " ", "d", "e", "t", "e", "c", "t", "a", "d", "o">>
PLACEHOLDER_MAE == <<"M", "A", "E", " ", "n", "a", "o", " ", "d", "e", "t", "e", "c", "t", "a", "d", "a">>
PLACEHOLDER_PAI == <<"P", "A", "I", " ", "n", "a", "o", " ", "d", "e", "t", "e", "c", "t", "a", "d", "o">>
PLACEHOLDER_DT_NASC == <<"D", "A", "T", "A", "_", "N", "A", "S", "C", "I", "M", "E", "N", "T", "O", " ", "n", "a", "o", " ", "d", "e", "t", "e", "c", "t", "a", "d", "a">>
PLACEHOLDER_NOME == <<"N", "O", "M", "E", " ", "n", "a", "o", " ", "d", "e", "t", "e", "c", "t", "a", "d", "o">>

\* not x, for an Optional[str]
Falso(r) == IF r = Nenhum THEN TRUE ELSE r[1] = <<>>

\* what the body of the loop would extract were the extractors given the three
\* sections together
ExtraidoDeTudo(secoes) ==
  Seja(secoes.cadastro \o <<"\n">> \o secoes.formacao \o <<"\n">> \o secoes.recebimento, LAMBDA t :
    [secoes |-> secoes,
     cpf |-> Ou(EncontrarCpfEmBloco(t), PLACEHOLDER_CPF),
     nome |-> Ou(EncontrarNomeProfissional(t), PLACEHOLDER_NOME),
     cns |-> Ou(EncontrarCnsEmBloco(t), PLACEHOLDER_CNS),
     nome_mae |-> EncontrarNomeMae(t),
     nome_pai |-> EncontrarNomePai(t),
     data_nasc |-> EncontrarDataNascimento(t),
     rg_ci |-> ExtrairInformacoesRgCi(t),
     estado_civil |-> ExtractEstadoCivil(t),
     contatos |-> ExtractAddressEmailContacts(t)])

\* what the body of the loop extracts from one block, before the placeholders
\* of the three audited family fields are put in
ExtraidoDe(secoes) ==
  [secoes |-> secoes,
   cpf |-> Ou(EncontrarCpfEmBloco(secoes.cadastro), PLACEHOLDER_CPF),
   nome |-> Ou(EncontrarNomeProfissional(secoes.cadastro), PLACEHOLDER_NOME),
   cns |-> Ou(EncontrarCnsEmBloco(secoes.cadastro), PLACEHOLDER_CNS),
   nome_mae |-> EncontrarNomeMae(secoes.cadastro),
   nome_pai |-> EncontrarNomePai(secoes.cadastro),
   data_nasc |-> EncontrarDataNascimento(secoes.cadastro),
   rg_ci |-> IF secoes.cadastro # <<>> THEN ExtrairInformacoesRgCi(secoes.cadastro)
             ELSE RgCiVazio,
   estado_civil |-> ExtractEstadoCivil(secoes.cadastro),
   contatos |-> IF secoes.cadastro # <<>> THEN ExtractAddressEmailContacts(secoes.cadastro)
                ELSE ContatosVazio]

\* the fields of one block: its sections, and what every extractor finds in
\* its registration section
Extraido(bloco) == ExtraidoDe(ExtraiSecao(bloco))

\* the record without the seven contact fields
BlocoDictSemContatos(x) ==
  [nome |-> x.nome,
   cpf |-> x.cpf,
   cns |-> x.cns,
   nome_mae |-> Ou(x.nome_mae, PLACEHOLDER_MAE),
   nome_pai |-> Ou(x.nome_pai, PLACEHOLDER_PAI),
   data_nascimento |-> Ou(x.data_nasc, PLACEHOLDER_DT_NASC),
   cadastro |-> x.secoes.cadastro,
   formacao |-> x.secoes.formacao,
   recebimento |-> x.secoes.recebimento,
   rg |-> x.rg_ci.rg,
   uf_ci |-> x.rg_ci.uf_ci,
   orgao_emissor_ci |-> x.rg_ci.orgao_emissor_ci,
   data_emissao_ci |-> x.rg_ci.data_emissao_ci,
   endereco_nascimento |-> x.rg_ci.endereco_nascimento,
   estado_civil |-> x.estado_civil]

\* bloco_dict
BlocoDict(x) ==
  [nome |-> x.nome,
   cpf |-> x.cpf,
   cns |-> x.cns,
   nome_mae |-> Ou(x.nome_mae, PLACEHOLDER_MAE),
   nome_pai |-> Ou(x.nome_pai, PLACEHOLDER_PAI),
   data_nascimento |-> Ou(x.data_nasc, PLACEHOLDER_DT_NASC),
   cadastro |-> x.secoes.cadastro,
   formacao |-> x.secoes.formacao,
   recebimento |-> x.secoes.recebimento,
   rg |-> x.rg_ci.rg,
   uf_ci |-> x.rg_ci.uf_ci,
   orgao_emissor_ci |-> x.rg_ci.orgao_emissor_ci,
   data_emissao_ci |-> x.rg_ci.data_emissao_ci,
   endereco_nascimento |-> x.rg_ci.endereco_nascimento,
   estado_civil |-> x.estado_civil,
   endereco |-> x.contatos.endereco,
   crm |-> x.contatos.crm,
   email |-> x.contatos.email,
   telefone |-> x.contatos.telefone,
   telefone_emergencia |-> x.contatos.telefone_emergencia,
   tipo_contato_emergencia |-> x.contatos.tipo_contato_emergencia,
   carga_horaria_semanal |-> x.contatos.carga_horaria_semanal]

\* vistos after a block
Vistos(v, cpf) == IF cpf # PLACEHOLDER_CPF /\ cpf \notin v THEN v \cup {cpf} ELSE v

\* the health-card registry with the name left out of the entry
CnsSemNome(reg, x) ==
  IF x.cns = PLACEHOLDER_CNS THEN Append(reg, [nome |-> PLACEHOLDER_NOME, cpf |-> x.cpf]) ELSE reg

\* cns_nao_detectados after a block
CnsNaoDetectados(reg, x) ==
  IF x.cns = PLACEHOLDER_CNS THEN Append(reg, [nome |-> x.nome, cpf |-> x.cpf]) ELSE reg

\* the mother's-name registry with an entry only for a block whose identity
\* number was found
MaeSoComCpf(reg, x) ==
  IF Falso(x.nome_mae) /\ x.cpf # PLACEHOLDER_CPF THEN Append(reg, [cpf |-> x.cpf]) ELSE reg

\* mae_nao_detectados after a block
MaeNaoDetectados(reg, x) == IF Falso(x.nome_mae) THEN Append(reg, [cpf |-> x.cpf]) ELSE reg

\* pai_nao_detectados after a block
PaiNaoDetectados(reg, x) == IF Falso(x.nome_pai) THEN Append(reg, [cpf |-> x.cpf]) ELSE reg

\* the birth-date registry with an entry only for a block whose identity
\* number was found
DtNascSoComCpf(reg, x) ==
  IF Falso(x.data_nasc) /\ x.cpf # PLACEHOLDER_CPF THEN Append(reg, [cpf |-> x.cpf]) ELSE reg

\* dt_nasc_nao_detectados after a block
DtNascNaoDetectados(reg, x) == IF Falso(x.data_nasc) THEN Append(reg, [cpf |-> x.cpf]) ELSE reg

\* the records with a block left out when its identity number was seen before
BlocosSemRepetidos(registros, x, v) == IF x.cpf \in v THEN registros ELSE Append(registros, BlocoDict(x))

\* resultado["medico"]["blocos"] after a block
BlocosComMais(registros, x, v) == Append(registros, BlocoDict(x))

\* resultado with the four audit registries attached
ComRegistros(r, cns, mae, pai, dt) ==
  [medico |-> [blocos |-> r.medico.blocos,
               cns_nao_identificados |-> cns,
               mae_nao_identificados |-> mae,
               pai_nao_identificados |-> pai,
               data_nascimento_nao_identificados |-> dt]]

\* the start of processar_documentos_medicos: the file is read and cut in
\* blocks; when it is not there the bare result is returned
AbreNormalizado ==
  /\ pc = "processar"
  /\ resultado' = [medico |-> [blocos |-> <<>>]]
  /\ cns_nao_detectados' = <<>>
  /\ mae_nao_detectados' = <<>>
  /\ pai_nao_detectados' = <<>>
  /\ dt_nasc_nao_detectados' = <<>>
  /\ vistos' = {}
  /\ IF ~arq[NORMALIZADO].existe
       THEN /\ relatos' = relatos \cup {<<"Arquivo nao encontrado", NORMALIZADO>>}
            /\ dados' = Algum([medico |-> [blocos |-> <<>>]])
            /\ pc' = "salvar"
            /\ UNCHANGED <<blocos, indice>>
       ELSE /\ blocos' = Blocos(arq[NORMALIZADO].texto)
            /\ indice' = 1
            /\ pc' = "blocos"
            /\ UNCHANGED <<relatos, dados>>
  /\ UNCHANGED <<arq, entrada, saida, docx, gravavel, erro, falhou>>

\* what one turn of the loop does with the fields x extracted from its block
RegistraBloco(x) ==
  /\ vistos' = Vistos(vistos, x.cpf)
  /\ cns_nao_detectados' = CnsNaoDetectados(cns_nao_detectados, x)
  /\ mae_nao_detectados' = MaeNaoDetectados(mae_nao_detectados, x)
  /\ pai_nao_detectados' = PaiNaoDetectados(pai_nao_detectados, x)
  /\ dt_nasc_nao_detectados' = DtNascNaoDetectados(dt_nasc_nao_detectados, x)
  /\ resultado' = [medico |-> [blocos |-> BlocosComMais(resultado.medico.blocos, x, vistos)]]

\* one turn of the loop over the blocks
ProcessaBloco ==
  /\ pc = "blocos"
  /\ indice <= Len(blocos)
  /\ RegistraBloco(Extraido(blocos[indice]))
  /\ indice' = indice + 1
  /\ UNCHANGED <<pc, arq, relatos, entrada, saida, docx, gravavel, blocos, dados, erro, falhou>>

\* the end of processar_documentos_medicos: the registries are attached and
\* the result is returned
AnexaRegistros ==
  /\ pc = "blocos"
  /\ indice > Len(blocos)
  /\ resultado' = ComRegistros(resultado, cns_nao_detectados, mae_nao_detectados,
                               pai_nao_detectados, dt_nasc_nao_detectados)
  /\ dados' = Algum(resultado')
  /\ pc' = "salvar"
  /\ UNCHANGED <<arq, relatos, entrada, saida, docx, gravavel, blocos, indice,
                 cns_nao_detectados, mae_nao_detectados, pai_nao_detectados,
                 dt_nasc_nao_detectados, vistos, erro, falhou>>

(***************************************************************************)
(* main: extract, normalize, process, save                                 *)
(***************************************************************************)

\* str.rstrip()
RStrip(s) ==
  LET pretos == {i \in 1..Len(s) : s[i] \notin Espacos}
  IN IF pretos = {} THEN <<>> ELSE SubSeq(s, 1, Max(pretos))

PONTO_DOCX == <<".", "d", "o", "c", "x">>

\* filename.lower().endswith(".docx") and text.strip()
Aproveitado(d) ==
  /\ Len(d.nome) >= Len(PONTO_DOCX)
  /\ OcorreEm(Lower(d.nome), PONTO_DOCX, Len(d.nome) - Len(PONTO_DOCX) + 1)
  /\ Strip(d.texto) # <<>>

\* what extrair_todos_textos appends to all_texts.txt for one document
Moldura(d) ==
  <<"-", "-", "-", "-", " ">> \o d.nome \o <<" ", "-", "-", "-", "-", "\n">>
    \o RStrip(d.texto) \o <<"\n">> \o DELIMITADOR

\* all_texts.txt after every document was appended
Master(docs) ==
  LET bons == SelectSeq(docs, Aproveitado)
  IN Concat([k \in 1..Len(bons) |-> Moldura(bons[k])])

\* STRING1, the boilerplate that main has the normalizer remove
STRING1 ==
  <<" ","F","A","S","E"," ","2","VS16","KEYCAP","\n","D","o","c","u","m","e","n","t","o","s",
    " ","n","e","c","e","s","s","a'","r","i","o","s",":"," ","\n","CHECK","C","a","r","t","e",
    "i","r","a"," ","d","e"," ","i","d","e","n","t","i","d","a","d","e"," ","f","r","e","n","t",
    "e"," ","e"," ","v","e","r","s","o",":"," ","a","n","e","x","o","\n","CHECK","C","a","r",
    "t","e","i","r","a"," ","C","R","M"," ","f","r","e","n","t","e","/","v","e","r","s","o",":",
    " ","d","e","c","l","a","r","a","c,","a~","o"," ","a","n","e","x","o","\n","CHECK","D","i",
    "p","l","o","m","a"," ","m","e","d","i","c","i","n","a",":"," ","c","e","r","t","i","f","i",
    "c","a","d","o"," ","a","n","e","x","o","\n","CHECK","C","e","r","t","i","d","a~","o"," ",
    "d","e"," ","C","a","s","a","m","e","n","t","o"," ","(","s","e"," ","c","a","s","a","d","o",
    ")",":"," ","a","n","e","x","o","\n","CHECK","C","o","m","p","r","o","v","a","n","t","e",
    " ","d","e"," ","e","n","d","e","r","e","c,","o",":"," ","a","n","e","x","o","\n","CHECK",
    "P","I","S"," ","/"," ","C","a","r","t","e","i","r","a"," ","d","e"," ","t","r","a","b","a",
    "l","h","o"," ",":"," ","P","I","S"," ","1","2","9","6","4","4","2","0","0","9","4"," ","c",
    "a","r","t","e","i","r","a"," ","a","n","e","x","o","\n","CHECK"," ","C","e","r","t","i",
    "f","i","c","a","d","o"," ","d","e"," ","r","e","s","i","d","e^","n","c","i","a"," ","m",
    "e'","d","i","c","a"," ","O","U"," ","d","e","c","l","a","r","a","c,","a","o"," ","d","e",
    " ","r","e","s","i","d","e^","n","c","i","a"," ","m","e'","d","i","c","a"," ","E","M"," ",
    "C","U","R","S","O","\n","CHECK"," ","C","e","r","t","i","f","i","c","a","d","o"," ","d",
    "e"," ","e","s","p","e","c","i","a","l","i","d","a","d","e","/","p","o'","s"," ","g","r",
    "a","d","u","a","c,","a~","o",":"," ","a","n","e","x","o"," ","\n","CHECK","C","e","r","t",
    "i","f","i","c","a","d","o","s"," ","d","e"," ","c","u","r","s","o","s"," ","d","i","v","e",
    "r","s","o","s"," ","(","A","C","L","S",","," ","A","T","L","S",","," ","P","A","L","S"," ",
    "o","u"," ","q","u","a","l","q","u","e","r"," ","o","u","t","r","o",")",":"," ","a","n","e",
    "x","o","\n","CHECK","C","u","r","r","i'","c","u","l","o"," ","a","t","u","a","l","i","z",
    "a","d","o",":"," ","a","n","e","x","o","\n","E","s","s","e","s"," ","d","o","c","u","m",
    "e","n","t","o","s"," ","d","e","v","e","m"," ","s","e","r"," ","e","n","t","r","e","g","u",
    "e","s"," ","a","t","e'"," ","2","0","/","0","5","/","2","0","2","1","."," ","P","o","d",
    "e","m"," ","s","e","r"," ","e","n","v","i","a","d","o","s"," ","e","s","c","a","n","e","a",
    "d","o","s"," ","o","u"," ","d","i","g","i","t","a","l","i","z","a","d","o","s"," ","p","a",
    "r","a"," ","o"," ","e","m","a","i","l"," ","O","U"," ","p","a","r","a"," ","m","e","u"," ",
    "W","h","a","t","s","A","p","p",".","\n","m","e","d","i","c","a","l","s",".","a","p","o",
    "i","o","@","g","m","a","i","l",".","c","o","m","\n","Q","u","a","l","q","u","e","r"," ",
    "d","u'","v","i","d","a"," ","e","n","t","r","e"," ","e","m"," ","c","o","n","t","a","t",
    "o"," ","c","o","m","i","g","o","\n","PHONE","VS16"," ","0","2","7"," ","9","9","9","3","7",
    "-","6","1","4","6"," ">>

\* the documents the source folder may hold: file name and the text read_docx gives
DocumentosAmostra == <<
  [nome |-> <<"a", "n", "a", ".", "d", "o", "c", "x">>,
   texto |->
     <<"N","o","m","e",":"," ","A","n","a"," ","L","i","m","a","\n","C","P","F",":"," ","1","2",
       "3",".","4","5","6",".","7","8","9","-","0","9","\n","C","N","S",":"," ","7","0","0"," ",
       "0","0","1","0"," ","8","2","8","0"," ","0","0","0","1","\n","D","a","t","a"," ","d","e",
       " ","n","a","s","c","i","m","e","n","t","o",":"," ","0","1","/","0","2","/","1","9","9",
       "0","\n","N","o","m","e"," ","d","a"," ","m","a~","e",":"," ","M","a","r","i","a","\n",
       "N","o","m","e"," ","d","o"," ","p","a","i",":"," ","J","o","s","e'","\n","E","s","t",
       "a","d","o"," ","c","i","v","i","l",":"," ","C","a","s","a","d","a","\n","T","e","l",":",
       " ","(","2","7",")"," ","9","9","9","9","9","-","8","8","8","8","\n","E","-","m","a","i",
       "l",":"," ","a","n","a","@","m","a","i","l",".","c","o","m","\n","F","O","R","M","A",
       "C,","A~","O"," ","P","R","O","F","I","S","S","I","O","N","A","L","\n","C","R","M","-",
       "E","S",":"," ","1","2","3","4","\n","R","E","C","E","B","I","M","E","N","T","O","\n",
       "P","i","x"," ","C","P","F"," ","1","2","3","4","5","6","7","8","9","0","9","\n">>],
  [nome |-> <<"b", "i", "a", ".", "d", "o", "c", "x">>,
   texto |->
     <<"N","O","M","E"," ","B","i","a","\n","c","p","f"," ","1","2","3","4","5","6","7","8","9",
       "0","9","\n","F","o","r","m","a","c","a","o"," ","p","r","o","f","i","s","s","i","o","n",
       "a","l","\n","D","a","t","a"," ","d","e"," ","n","a","s","c","i","m","e","n","t","o",":",
       " ","0","3","/","0","4","/","8","5">>],
  [nome |-> <<"v", "a", "z", "i", "o", ".", "d", "o", "c", "x">>,
   texto |->
     <<" ","\n">>],
  [nome |-> <<"n", "o", "t", "a", "s", ".", "t", "x", "t">>,
   texto |->
     <<"C","P","F",":"," ","1","1","1",".","2","2","2",".","3","3","3","-","4","4">>],
  [nome |-> <<"d", "a", "n", ".", "D", "O", "C", "X">>,
   texto |->
     <<"N","o","m","e",":"," ","D","a","n","\n","R","G"," ","(","S","S","P",")",":"," ","1",".",
       "2","3","4",".","5","6","7","-","E","S","\n","-","-","-","-","-","-","-","-","-","-","-",
       "-","-","-","-","-","-","-","-","-","-","-","-","-","-","-","-","-","-","-","-","-","-",
       "\n","\n","C","P","F"," ","v","i","a"," ","P","I","X",":"," ","9","8","7","6","5","4",
       "3","2","1","0","0","\n","E","n","d","e","r","e","c,","o",":"," ","R","u","a"," ","A",
       ","," ","1","0","\n","C","o","n","t","a","t","o"," ","d","e"," ","u","r","g","e^","n",
       "c","i","a",":"," ","R","u","i"," ","(","p","a","i",")"," ","2","7"," ","3","3","3","3",
       "-","4","4","4","4","\n","C","a","r","g","a"," ","h","o","r","a'","r","i","a"," ","s",
       "e","m","a","n","a","l",":"," ","4","0","h","\n","M","u","n","i","c","i'","p","i","o",
       " ","d","e"," ","n","a","s","c","i","m","e","n","t","o",":"," ","S","e","r","r","a","\n",
       "U","F",":"," ","E","S">>],
  [nome |-> <<"e", "v", "a", ".", "d", "o", "c", "x">>,
   texto |->
     <<"N","o","m","e",":"," ","E","v","a","\n"," ","F","A","S","E"," ","2","VS16","KEYCAP",
       "\n","D","o","c","u","m","e","n","t","o","s"," ","n","e","c","e","s","s","a'","r","i",
       "o","s",":"," ","\n","CHECK","C","a","r","t","e","i","r","a"," ","d","e"," ","i","d","e",
       "n","t","i","d","a","d","e"," ","f","r","e","n","t","e"," ","e"," ","v","e","r","s","o",
       ":"," ","a","n","e","x","o","\n","CHECK","C","a","r","t","e","i","r","a"," ","C","R","M",
       " ","f","r","e","n","t","e","/","v","e","r","s","o",":"," ","d","e","c","l","a","r","a",
       "c,","a~","o"," ","a","n","e","x","o","\n","CHECK","D","i","p","l","o","m","a"," ","m",
       "e","d","i","c","i","n","a",":"," ","c","e","r","t","i","f","i","c","a","d","o"," ","a",
       "n","e","x","o","\n","CHECK","C","e","r","t","i","d","a~","o"," ","d","e"," ","C","a",
       "s","a","m","e","n","t","o"," ","(","s","e"," ","c","a","s","a","d","o",")",":"," ","a",
       "n","e","x","o","\n","CHECK","C","o","m","p","r","o","v","a","n","t","e"," ","d","e"," ",
       "e","n","d","e","r","e","c,","o",":"," ","a","n","e","x","o","\n","CHECK","P","I","S",
       " ","/"," ","C","a","r","t","e","i","r","a"," ","d","e"," ","t","r","a","b","a","l","h",
       "o"," ",":"," ","P","I","S"," ","1","2","9","6","4","4","2","0","0","9","4"," ","c","a",
       "r","t","e","i","r","a"," ","a","n","e","x","o","\n","CHECK"," ","C","e","r","t","i","f",
       "i","c","a","d","o"," ","d","e"," ","r","e","s","i","d","e^","n","c","i","a"," ","m",
       "e'","d","i","c","a"," ","O","U"," ","d","e","c","l","a","r","a","c,","a","o"," ","d",
       "e"," ","r","e","s","i","d","e^","n","c","i","a"," ","m","e'","d","i","c","a"," ","E",
       "M"," ","C","U","R","S","O","\n","CHECK"," ","C","e","r","t","i","f","i","c","a","d","o",
       " ","d","e"," ","e","s","p","e","c","i","a","l","i","d","a","d","e","/","p","o'","s"," ",
       "g","r","a","d","u","a","c,","a~","o",":"," ","a","n","e","x","o"," ","\n","CHECK","C",
       "e","r","t","i","f","i","c","a","d","o","s"," ","d","e"," ","c","u","r","s","o","s"," ",
       "d","i","v","e","r","s","o","s"," ","(","A","C","L","S",","," ","A","T","L","S",","," ",
       "P","A","L","S"," ","o","u"," ","q","u","a","l","q","u","e","r"," ","o","u","t","r","o",
       ")",":"," ","a","n","e","x","o","\n","CHECK","C","u","r","r","i'","c","u","l","o"," ",
       "a","t","u","a","l","i","z","a","d","o",":"," ","a","n","e","x","o","\n","E","s","s","e",
       "s"," ","d","o","c","u","m","e","n","t","o","s"," ","d","e","v","e","m"," ","s","e","r",
       " ","e","n","t","r","e","g","u","e","s"," ","a","t","e'"," ","2","0","/","0","5","/","2",
       "0","2","1","."," ","P","o","d","e","m"," ","s","e","r"," ","e","n","v","i","a","d","o",
       "s"," ","e","s","c","a","n","e","a","d","o","s"," ","o","u"," ","d","i","g","i","t","a",
       "l","i","z","a","d","o","s"," ","p","a","r","a"," ","o"," ","e","m","a","i","l"," ","O",
       "U"," ","p","a","r","a"," ","m","e","u"," ","W","h","a","t","s","A","p","p",".","\n","m",
       "e","d","i","c","a","l","s",".","a","p","o","i","o","@","g","m","a","i","l",".","c","o",
       "m","\n","Q","u","a","l","q","u","e","r"," ","d","u'","v","i","d","a"," ","e","n","t",
       "r","e"," ","e","m"," ","c","o","n","t","a","t","o"," ","c","o","m","i","g","o","\n",
       "PHONE","VS16"," ","0","2","7"," ","9","9","9","3","7","-","6","1","4","6"," ","\n","\n",
       "\n","D","a","t","a"," ","d","e"," ","n","a","s","c","i","m","e","n","t","o",":"," ","3",
       "1","/","1","2","/","2","9","\n","R","e","c","e","b","i","m","e","n","t","o",":"," ","p",
       "i","x">>],
  [nome |-> <<"g", "i", "l", ".", "d", "o", "c", "x">>,
   texto |->
     <<"N", "o", "m", "e", ":", " ", "G", "i", "l", "\n", "E", "-", "m", "a", "i", "l", ":", " ", "g", "i", "l", "@", "m", "a", "i", "l", ".", "c", "o", "m", "\n", "E", "-", "m", "a", "i", "l", ":", " ", "G", "I", "L", "@", "m", "a", "i", "l", ".", "c", "o", "m", "\n", "T", "e", "l", ":", " ", "2", "7", " ", "3", "3", "3", "3", "-", "4", "4", "4", "4", "\n", "T", "e", "l", ":", " ", "2", "7", " ", "3", "3", "3", "3", "-", "4", "4", "4", "4">>],
  [nome |-> <<"r", "i", "t", "a", ".", "d", "o", "c", "x">>,
   texto |->
     <<"N", "o", "m", "e", ":", " ", "R", "i", "t", "a", "\n", "C", "P", "F", ":", " ", "1", "1", "1", ".", "2", "2", "2", ".", "3", "3", "3", "-", "4", "4", "\n", "N", "o", "m", "e", " ", "d", "a", " ", "m", "a~", "e", ":", " ", "M", "A", "E", " ", "n", "a", "o", " ", "d", "e", "t", "e", "c", "t", "a", "d", "a", "\n", "N", "o", "m", "e", " ", "d", "o", " ", "p", "a", "i", ":", " ", "R", "u", "i", "\n", "C", "N", "S", ":", " ", "7", "0", "0", " ", "0", "0", "1", "0", " ", "8", "2", "8", "0", " ", "0", "0", "0", "2">>] >>

MaxDocs == 2

\* extrair_todos_textos: all_texts.txt is emptied (a failure to open it is
\* only warned about) and the framed text of every document is appended; a
\* failure to open it for appending is not caught and ends main
ExtrairTodosTextos ==
  /\ pc = "extrair"
  /\ IF gravavel
       THEN /\ arq' = [arq EXCEPT ![ALL_TEXTS] = Arquivo(Master(docx))]
            /\ relatos' = relatos \cup {<<"Arquivo principal limpo", ALL_TEXTS>>,
                                        <<"Textos extraidos salvos em", ALL_TEXTS>>}
            /\ pc' = "normalizar"
            /\ erro' = erro
       ELSE IF SelectSeq(docx, Aproveitado) = <<>>
       THEN /\ relatos' = relatos \cup {<<"Aviso: nao foi possivel limpar", ALL_TEXTS>>,
                                        <<"Textos extraidos salvos em", ALL_TEXTS>>}
            /\ pc' = "normalizar"
            /\ UNCHANGED <<arq, erro>>
       ELSE /\ relatos' = relatos \cup {<<"Aviso: nao foi possivel limpar", ALL_TEXTS>>,
                                        <<"Erro durante o processamento", ALL_TEXTS>>}
            /\ erro' = "OSError"
            /\ pc' = "erro"
            /\ arq' = arq
  /\ UNCHANGED <<entrada, saida, docx, gravavel, blocos, indice, resultado, cns_nao_detectados,
                 mae_nao_detectados, pai_nao_detectados, dt_nasc_nao_detectados, vistos, dados,
                 falhou>>

\* normalizar_textos(fuzzy=True)
NormalizarMain ==
  /\ pc = "normalizar"
  /\ NormalizarTextos(ALL_TEXTS, NORMALIZADO, STRING1, TRUE)
  /\ pc' = "processar"
  /\ UNCHANGED <<entrada, saida, varsMain>>

\* json.dump(dados) into cpfs_blocos.json; the file is kept as the document
\* it encodes
Salvar ==
  /\ pc = "salvar"
  /\ arq' = [arq EXCEPT ![CPFS_BLOCOS] = Arquivo(dados[1])]
  /\ relatos' = relatos \cup {<<"Dados processados salvos em", CPFS_BLOCOS>>}
  /\ pc' = "estatisticas"
  /\ UNCHANGED <<entrada, saida, varsMain>>

ChavesDeRegistro ==
  {"cns_nao_identificados", "mae_nao_identificados", "pai_nao_identificados",
   "data_nascimento_nao_identificados"}

\* the final statistics: they read the records and the four registries of
\* dados; a missing key raises KeyError, which main reports and raises again
Estatisticas ==
  /\ pc = "estatisticas"
  /\ IF ChavesDeRegistro \subseteq DOMAIN dados[1].medico
       THEN /\ relatos' = relatos \cup {<<"ESTATISTICAS FINAIS", "">>}
            /\ pc' = "excel"
            /\ erro' = erro
       ELSE /\ relatos' = relatos \cup {<<"Erro durante o processamento", "cns_nao_identificados">>}
            /\ erro' = "KeyError"
            /\ pc' = "erro"
  /\ UNCHANGED <<arq, entrada, saida, docx, gravavel, blocos, indice, resultado,
                 cns_nao_detectados, mae_nao_detectados, pai_nao_detectados,
                 dt_nasc_nao_detectados, vistos, dados, falhou>>

\* the sheets json_to_excel writes: the records, and every registry that is
\* not empty; the rendering of the cells is left out
Planilhas(d) ==
  LET medico == d.medico
      lista(k) == IF k \in DOMAIN medico THEN medico[k] ELSE <<>>
      chaves == <<"cns_nao_identificados", "mae_nao_identificados", "pai_nao_identificados",
                  "data_nascimento_nao_identificados">>
      cheia(k) == lista(k) # <<>>
      usadas == SelectSeq(chaves, cheia)
  IN <<"Blocos">> \o usadas

\* the attempt to write the spreadsheet: it succeeds, or it fails and the
\* failure is reported and swallowed
GerarExcel ==
  /\ pc = "excel"
  /\ \/ /\ arq' = [arq EXCEPT ![CPFS_XLSX] = Arquivo(Planilhas(arq[CPFS_BLOCOS].texto))]
        /\ relatos' = relatos \cup {<<"Arquivo Excel gerado", CPFS_XLSX>>}
     \/ /\ relatos' = relatos \cup {<<"Falha ao gerar Excel", CPFS_XLSX>>}
        /\ arq' = arq
  /\ pc' = "fim"
  /\ UNCHANGED <<entrada, saida, varsMain>>

Documentos ==
  {[k \in 1..Len(is) |-> DocumentosAmostra[is[k]]] : is \in SeqsAte(1..Len(DocumentosAmostra), MaxDocs)}

Init ==
  /\ pc = "extrair"
  /\ docx \in Documentos
  /\ gravavel \in BOOLEAN
  /\ arq = [f \in Arquivos |-> Ausente]
  /\ relatos = {}
  /\ entrada = <<>>
  /\ saida = <<>>
  /\ blocos = <<>>
  /\ indice = 0
  /\ resultado = [medico |-> [blocos |-> <<>>]]
  /\ cns_nao_detectados = <<>>
  /\ mae_nao_detectados = <<>>
  /\ pai_nao_detectados = <<>>
  /\ dt_nasc_nao_detectados = <<>>
  /\ vistos = {}
  /\ dados = <<>>
  /\ erro = ""
  /\ falhou = 0

Next ==
  \/ ExtrairTodosTextos
  \/ NormalizarMain
  \/ AbreNormalizado
  \/ ProcessaBloco
  \/ AnexaRegistros
  \/ Salvar
  \/ Estatisticas
  \/ GerarExcel

Spec == Init /\ [][Next]_vars

(***************************************************************************)
(* SpecFalha: the pipeline when an extractor may raise                     *)
(***************************************************************************)

\* the calls of one turn of the loop, in the order the body makes them
CamposDoLaco ==
  <<"secoes", "cpf", "nome", "cns", "nome_mae", "nome_pai", "data_nascimento", "rg_ci",
    "estado_civil", "contatos">>

\* the position of a call in the body of the loop
PosicaoDe(campo) == CHOOSE i \in 1..Len(CamposDoLaco) : CamposDoLaco[i] = campo

\* what one turn of the loop has done when the call at position p raises: the
\* updates that follow the calls before it; no record is appended
RegistraAteFalha(x, p) ==
  /\ vistos' = IF p > PosicaoDe("cpf") THEN Vistos(vistos, x.cpf) ELSE vistos
  /\ cns_nao_detectados' =
       IF p > PosicaoDe("cns") THEN CnsNaoDetectados(cns_nao_detectados, x)
       ELSE cns_nao_detectados
  /\ mae_nao_detectados' =
       IF p > PosicaoDe("nome_mae") THEN MaeNaoDetectados(mae_nao_detectados, x)
       ELSE mae_nao_detectados
  /\ pai_nao_detectados' =
       IF p > PosicaoDe("nome_pai") THEN PaiNaoDetectados(pai_nao_detectados, x)
       ELSE pai_nao_detectados
  /\ dt_nasc_nao_detectados' =
       IF p > PosicaoDe("data_nascimento") THEN DtNascNaoDetectados(dt_nasc_nao_detectados, x)
       ELSE dt_nasc_nao_detectados

\* one turn of the loop in which a call raises: nothing in the loop, in
\* processar_documentos_medicos or around its call catches the exception, so
\* it reaches the handler of main, which reports it and raises it again
FalhaNoExtrator ==
  /\ pc = "blocos"
  /\ indice <= Len(blocos)
  /\ \E p \in 1..Len(CamposDoLaco) :
       /\ RegistraAteFalha(Extraido(blocos[indice]), p)
       /\ relatos' = relatos \cup {<<"Erro durante o processamento", CamposDoLaco[p]>>}
  /\ falhou' = indice
  /\ erro' = "Exception"
  /\ pc' = "erro"
  /\ UNCHANGED <<arq, entrada, saida, docx, gravavel, blocos, indice, resultado, dados>>

NextFalha ==
  \/ ExtrairTodosTextos
  \/ NormalizarMain
  \/ AbreNormalizado
  \/ ProcessaBloco
  \/ FalhaNoExtrator
  \/ AnexaRegistros
  \/ Salvar
  \/ Estatisticas
  \/ GerarExcel

SpecFalha == Init /\ [][NextFalha]_vars

(***************************************************************************)
(* The records and the registries                                          *)
(***************************************************************************)

CamposUnicos == {"nome", "cpf", "cns", "nome_mae", "nome_pai", "data_nascimento"}
CamposDeSecao == {"cadastro", "formacao", "recebimento"}
CamposMultiplos ==
  {"rg", "uf_ci", "orgao_emissor_ci", "data_emissao_ci", "endereco_nascimento", "estado_civil",
   "endereco", "crm", "email", "telefone", "telefone_emergencia", "tipo_contato_emergencia",
   "carga_horaria_semanal"}

\* a string: a sequence of characters
EhTexto(v) == DOMAIN v = 1..Len(v) /\ \A i \in 1..Len(v) : v[i] \in STRING

\* a list of strings
EhListaDeTextos(v) == DOMAIN v = 1..Len(v) /\ \A i \in 1..Len(v) : EhTexto(v[i])

Registros == resultado.medico.blocos

SemDataNascimento == {k \in 1..Len(Registros) : Registros[k].data_nascimento = PLACEHOLDER_DT_NASC}

\* C4: the birth-date-missing registry has as many entries as there are
\* records whose birth date is the placeholder, after every block and in the
\* result the registry is attached to
C4_SimetriaDataNascimento ==
  /\ Len(dt_nasc_nao_detectados) = Cardinality(SemDataNascimento)
  /\ "data_nascimento_nao_identificados" \in DOMAIN resultado.medico =>
       Len(resultado.medico.data_nascimento_nao_identificados) = Cardinality(SemDataNascimento)

\* the run has ended with two records, one with its birth date and one
\* without, and the registry attached
C4_Testemunha ==
  /\ pc = "fim"
  /\ Len(Registros) = 2
  /\ Cardinality(SemDataNascimento) = 1
  /\ "data_nascimento_nao_identificados" \in DOMAIN resultado.medico

\* C5: one record per block, in block order: while the loop runs the records
\* are those of the blocks already taken, each built from its own block, and
\* after the loop there are as many records as blocks; a block whose identity
\* number was seen before has its record like any other
C5_UmRegistroPorBloco ==
  /\ Len(Registros) = (IF indice = 0 THEN 0 ELSE indice - 1)
  /\ \A k \in 1..Len(Registros) : Registros[k] = BlocoDict(Extraido(blocos[k]))
  /\ pc \in {"salvar", "estatisticas", "excel", "fim"} => Len(Registros) = Len(blocos)

\* the run has ended with two blocks of the same identity number, each with
\* its own record
C5_Testemunha ==
  /\ pc = "fim"
  /\ Len(blocos) = 2
  /\ Len(Registros) = 2
  /\ Registros[1].cpf # PLACEHOLDER_CPF
  /\ Registros[2].cpf = Registros[1].cpf
  /\ Registros[2].nome # Registros[1].nome
  /\ vistos = {Registros[1].cpf}

\* C6: when the corpus all_texts.txt is missing the run writes no output:
\* no normalized file and no result file
C6_SemCorpusSemSaida ==
  <<"Arquivo de entrada nao encontrado", ALL_TEXTS>> \in relatos =>
    /\ ~arq[NORMALIZADO].existe
    /\ ~arq[CPFS_BLOCOS].existe

\* C7: an exception raised while a field of a block is extracted is not
\* propagated: the run does not end in an error and the block has its record
C7_IsolamentoPorCampo ==
  falhou # 0 =>
    /\ erro = ""
    /\ pc # "erro"
    /\ Len(Registros) >= falhou

(***************************************************************************)
(* The health-card extractor alone, on blocks of a few lines               *)
(***************************************************************************)

MaxLinhasCns == 3

CNS_EXEMPLO == <<"C", "N", "S", ":", " ", "7", "0", "0", " ", "0", "0", "1", "0", " ", "8", "2", "8", "4", " ", "1", "5", "0", "6">>

LinhasCns ==
  { CNS_EXEMPLO,
    <<"C", "N", "S", ":", " ", "7", "0", "0", "0", "0", "1", "0", "8", "2", "8", "4", "1", "5", "0", "6">>,
    <<"c", "n", "s", " ", "7", "0", "0", "0", ".", "0", "1", "0", "8", ".", "2", "8", "4", "1", ".", "5", "0", "6", "9">>,
    <<"C", "n", "s", ":", " ", "1", "2", "3", "4">>,
    <<"C", "a", "r", "t", "a", "o", ":", " ", "8", "9", "8", "0", "0", "1", "2", "3", "4", "5", "6", "7", "8", "9", "0">>,
    <<"C", "N", "S", " ", "1", "2", "3", "4", "5", "6", " ", "7", "8", "9", "0", "1", "2", " ", "3", "4", "5", "6", "7", "8">>,
    <<" ", "c", "a", "r", "t", "a", "o", " ", "c", "n", "s", " ", "-", " ", "1", "1", "1", " ", "2", "2", "2", "2", " ", "3", "3", "3", "3", " ", "4", "4", "4", "4", " ">>,
    <<>> }

EntradasCns == {JuntaLinhas(ls) : ls \in SeqsAte(LinhasCns, MaxLinhasCns)}

InitCns ==
  /\ pc = "cns"
  /\ entrada \in EntradasCns
  /\ saida = Nenhum
  /\ arq = [f \in Arquivos |-> Ausente]
  /\ relatos = {}
  /\ MainParado

Cns ==
  /\ pc = "cns"
  /\ saida' = EncontrarCnsEmBloco(entrada)
  /\ pc' = "fim"
  /\ UNCHANGED <<arq, relatos, entrada, varsMain>>

NextCns == Cns

SpecCns == InitCns /\ [][NextCns]_vars

\* the lines of b that mention cns
LinhasDeCns(b) == {k \in 1..Len(SplitLines(b)) : Contem(Lower(SplitLines(b)[k]), CNS)}

\* v is 15 digits of line l, in the order the line has them
DigitosDaLinha(v, l) ==
  \E a \in 1..(Len(SoDigitos(l)) - CNS_DIGITOS + 1) : SubSeq(SoDigitos(l), a, a + CNS_DIGITOS - 1) = v

\* line l holds exactly 15 digits, with nothing but spaces among them
QuinzeComEspacos(l) ==
  /\ Len(SoDigitos(l)) = CNS_DIGITOS
  /\ \A i \in 1..Len(l) : \A j \in i..Len(l) : \A k \in i..j :
       (l[i] \in Digitos /\ l[j] \in Digitos) => l[k] \in Digitos \cup {" "}

\* C11: a returned health-card number is exactly 15 decimal digits taken, in
\* order, from one line that contains the label 'cns'; when the first labelled
\* line holds 15 digits separated by spaces, those 15 digits are returned
C11_CnsValido ==
  pc = "fim" =>
    /\ saida # Nenhum =>
         /\ Len(saida[1]) = 15
         /\ \A i \in 1..15 : saida[1][i] \in {"0", "1", "2", "3", "4", "5", "6", "7", "8", "9"}
         /\ \E k \in LinhasDeCns(entrada) : DigitosDaLinha(saida[1], SplitLines(entrada)[k])
    /\ (LinhasDeCns(entrada) # {} /\ QuinzeComEspacos(SplitLines(entrada)[Min(LinhasDeCns(entrada))])) =>
         saida = Algum(SoDigitos(SplitLines(entrada)[Min(LinhasDeCns(entrada))]))

\* a block whose first line has no label and whose second line is the
\* labelled number written in groups: the groups are returned joined
C11_Testemunha ==
  /\ pc = "fim"
  /\ entrada = <<"C", "a", "r", "t", "a", "o", ":", " ", "8", "9", "8", "0", "0", "1", "2", "3", "4", "5", "6", "7", "8", "9", "0">> \o <<"\n">> \o CNS_EXEMPLO
  /\ saida = Algum(<<"7", "0", "0", "0", "0", "1", "0", "8", "2", "8", "4", "1", "5", "0", "6">>)

(***************************************************************************)
(* The birth-date extractor alone                                          *)
(***************************************************************************)

DIA_MAX == 31
MES_MAX == 12
MaxLinhasData == 2

ROTULO_DATA == <<"D", "a", "t", "a", " ", "d", "e", " ", "n", "a", "s", "c", "i", "m", "e", "n", "t", "o", ":", " ">>

\* n in decimal: padded with zeros to w digits, or as short as it goes
Escreve(n, w, cheio) == IF cheio \/ n >= Potencia(10, w - 1) THEN Formata(n, w) ELSE Formata(n, w - 1)

\* a date as a dossier writes it: f = <<whether the day is padded, whether the
\* month is padded, the separator after the day, the separator after the month>>
Escrita(d, m, ano, f) == Escreve(d, 2, f[1]) \o f[3] \o Escreve(m, 2, f[2]) \o f[4] \o ano

\* D/M/Y with two separators, DD/MMYYYY, DDMMYYYY
FormatosAno4 ==
  ({<<pd, pm, s[1], s[2]>> : pd \in BOOLEAN, pm \in BOOLEAN,
      s \in {<<<<"/">>, <<"/">>>>, <<<<"-">>, <<"-">>>>, <<<<".">>, <<".">>>>, <<<<"/">>, <<"-">>>>}})
  \cup {<<TRUE, TRUE, <<c>>, <<>>>> : c \in SeparadoresDeData}
  \cup {<<TRUE, TRUE, <<>>, <<>>>>}

\* D/M/YY with two separators, DDMMYY
FormatosAno2 ==
  {<<p, p, <<c>>, <<c>>>> : p \in BOOLEAN, c \in SeparadoresDeData} \cup {<<TRUE, TRUE, <<>>, <<>>>>}

AnosAmostra == {1000, 1930, 1992, 2029, 9999}
DiasAmostra == {1, 9, 27, 31}
MesesAmostra == {2, 12}

LinhasData ==
  { ROTULO_DATA \o <<"4", "5", "/", "1", "3", "/", "1", "9", "9", "2">>,
    ROTULO_DATA \o <<"0", "2", "/", "1", "0", "/", "1", "9", "9", "2">>,
    ROTULO_DATA \o <<"9", "9", "/", "9", "9", "/", "9", "9", " ", "0", "2", "/", "1", "0", "1", "9", "9", "2">>,
    ROTULO_DATA \o <<"3", "2", "/", "0", "1", "/", "1", "9", "9", "0", " ", "3", "1", "0", "1", "1", "9", "9", "0">>,
    ROTULO_DATA \o <<"0", "0", "/", "0", "0", "/", "2", "0", "0", "0", " ", "a", " ", "4", "0", "1", "2">>,
    <<"D", "A", "T", "A", " ", "D", "E", " ", "N", "A", "S", "C", "I", "M", "E", "N", "T", "O", " ", "2", "7", "0", "2", "1", "9", "9", "6">>,
    <<"d", "a", "t", "a", " ", "d", "e", " ", "n", "a", "s", "c", "i", "m", "e", "n", "t", "o", ":">>,
    <<"N", "o", "m", "e", ":", " ", "A", "n", "a", " ", "0", "1", "/", "0", "2", "/", "1", "9", "9", "0">> }

EntradasData ==
  {[caso |-> "ano4", d |-> d, m |-> m, y |-> y, f |-> f,
    bloco |-> ROTULO_DATA \o Escrita(d, m, Formata(y, 4), f)] :
      d \in 1..DIA_MAX, m \in 1..MES_MAX, y \in AnosAmostra, f \in FormatosAno4}
  \cup
  {[caso |-> "ano2", d |-> d, m |-> m, y |-> y, f |-> f,
    bloco |-> ROTULO_DATA \o Escrita(d, m, Formata(y, 2), f)] :
      d \in DiasAmostra, m \in MesesAmostra, y \in 0..99, f \in FormatosAno2}
  \cup
  {[caso |-> "linhas", d |-> 0, m |-> 0, y |-> 0, f |-> <<>>, bloco |-> JuntaLinhas(ls)] :
      ls \in SeqsAte(LinhasData, MaxLinhasData)}

InitData ==
  /\ pc = "data"
  /\ entrada \in EntradasData
  /\ saida = Nenhum
  /\ arq = [f \in Arquivos |-> Ausente]
  /\ relatos = {}
  /\ MainParado

Data ==
  /\ pc = "data"
  /\ saida' = EncontrarDataNascimento(entrada.bloco)
  /\ pc' = "fim"
  /\ UNCHANGED <<arq, relatos, entrada, varsMain>>

NextData == Data

SpecData == InitData /\ [][NextData]_vars

\* YYYY-MM-DD
Iso(d, m, y) == Formata(y, 4) \o <<"-">> \o Formata(m, 2) \o <<"-">> \o Formata(d, 2)

\* C12: a labelled line whose value is a day of 1..31, a month of 1..12 and a
\* four-digit year written D/M/Y with separators (day and month of one or two
\* digits), DD/MMYYYY or DDMMYYYY gives the ISO date of that day, month and year
C12_DataNormalizada ==
  (pc = "fim" /\ entrada.caso = "ano4") => saida = Algum(Iso(entrada.d, entrada.m, entrada.y))

\* the date 2/10/1992 written with one-digit day, and the date 27021996
\* written without separators, have given their ISO dates
C12_Testemunha ==
  /\ pc = "fim"
  /\ entrada.caso = "ano4"
  /\ \/ /\ entrada.bloco = ROTULO_DATA \o <<"2", "/", "1", "0", "/", "1", "9", "9", "2">>
        /\ saida = Algum(<<"1", "9", "9", "2", "-", "1", "0", "-", "0", "2">>)
     \/ /\ entrada.bloco = ROTULO_DATA \o <<"3", "1", "1", "2", "9", "9", "9", "9">>
        /\ saida = Algum(<<"9", "9", "9", "9", "-", "1", "2", "-", "3", "1">>)

\* C13: a birth date written with a two-digit year yy, with separators or as
\* DDMMYY, is given the year 2000 + yy when yy < 30 and 1900 + yy when yy >= 30
C13_SeculoDoAno ==
  (pc = "fim" /\ entrada.caso = "ano2") =>
    saida = Algum(Iso(entrada.d, entrada.m,
                      IF entrada.y < 30 THEN 2000 + entrada.y ELSE 1900 + entrada.y))

\* the years 29 and 30 have been read, one through the separators and one
\* through the six digits
C13_Testemunha ==
  /\ pc = "fim"
  /\ entrada.caso = "ano2"
  /\ \/ /\ entrada.bloco = ROTULO_DATA \o <<"2", "7", "/", "0", "2", "/", "2", "9">>
        /\ saida = Algum(<<"2", "0", "2", "9", "-", "0", "2", "-", "2", "7">>)
     \/ /\ entrada.bloco = ROTULO_DATA \o <<"2", "7", "0", "2", "3", "0">>
        /\ saida = Algum(<<"1", "9", "3", "0", "-", "0", "2", "-", "2", "7">>)

\* the first line of b that carries the label, trimmed
PrimeiraLinhaDeData(b) ==
  LinhasUteis(b)[Min({k \in 1..Len(LinhasUteis(b)) : Contem(Lowered(LinhasUteis(b)[k]), DATA_DE_NASCIMENTO)})]

\* the candidates of a line in the order they are tried: the leftmost match
\* of each of the three patterns, then the digits of the value by position
CandidatosDeData(line) ==
  <<DataDosGrupos(BuscaData1(Ou(ExtrairValorPosLabel(line), line))),
    DataDosGrupos(BuscaData2(Ou(ExtrairValorPosLabel(line), line))),
    DataDosGrupos(BuscaData3(Ou(ExtrairValorPosLabel(line), line))),
    DataDosDigitos(Ou(ExtrairValorPosLabel(line), line))>>

\* C20: the first line that carries the label decides: its candidates are
\* tried in order and the first one accepted is returned; when all are
\* rejected nothing is returned, whatever the later lines hold; with no
\* labelled line nothing is returned
C20_PrimeiraLinhaDecide ==
  pc = "fim" =>
    IF \A k \in 1..Len(LinhasUteis(entrada.bloco)) :
         ~Contem(Lowered(LinhasUteis(entrada.bloco)[k]), DATA_DE_NASCIMENTO)
    THEN saida = Nenhum
    ELSE saida = PrimeiroCasamento(CandidatosDeData(PrimeiraLinhaDeData(entrada.bloco)))

\* a first labelled line whose every candidate is rejected, followed by a
\* labelled line with a valid date: nothing is returned
C20_Testemunha ==
  /\ pc = "fim"
  /\ entrada.bloco = (ROTULO_DATA \o <<"4", "5", "/", "1", "3", "/", "1", "9", "9", "2">>) \o <<"\n">> \o (ROTULO_DATA \o <<"0", "2", "/", "1", "0", "/", "1", "9", "9", "2">>)
  /\ saida = Nenhum

(***************************************************************************)
(* The marital-status extractor alone                                      *)
(***************************************************************************)

MaxEstados == 3

ROTULO_ESTADO == <<"E", "s", "t", "a", "d", "o", " ", "c", "i", "v", "i", "l", ":", " ">>

EstadosAmostra ==
  {<<"C", "a", "s", "a", "d", "o">>, <<"c", "a", "s", "a", "d", "o">>, <<"C", "A", "S", "A", "D", "O">>, <<"S", "o", "l", "t", "e", "i", "r", "a">>, <<"s", "o", "l", "t", "e", "i", "r", "a">>, <<"U", "n", "i", "a", "o", " ", "e", "s", "t", "a", "v", "e", "l">>}

\* the block that holds one labelled line for each value of vs, in order
LinhasDeEstado(vs) == JuntaLinhas([k \in 1..Len(vs) |-> ROTULO_ESTADO \o vs[k]])

EntradasEstado == {[valores |-> vs, bloco |-> LinhasDeEstado(vs)] : vs \in SeqsAte(EstadosAmostra, MaxEstados)}

InitEstado ==
  /\ pc = "estado"
  /\ entrada \in EntradasEstado
  /\ saida = <<>>
  /\ arq = [f \in Arquivos |-> Ausente]
  /\ relatos = {}
  /\ MainParado

Estado ==
  /\ pc = "estado"
  /\ saida' = ExtractEstadoCivil(entrada.bloco)
  /\ pc' = "fim"
  /\ UNCHANGED <<arq, relatos, entrada, varsMain>>

NextEstado == Estado

SpecEstado == InitEstado /\ [][NextEstado]_vars

\* where the value v first occurs in vs, case ignored
PrimeiraOcorrencia(vs, v) == Min({i \in 1..Len(vs) : Lower(vs[i]) = Lower(v)})

\* C14: the marital-status result holds no two values equal ignoring case;
\* every value written is in it once, with the casing of its first
\* occurrence, in first-occurrence order; deduplicated again it does not change
C14_DedupEmOrdem ==
  pc = "fim" =>
    /\ \A i \in 1..Len(saida) : \A j \in 1..Len(saida) : i # j => Lower(saida[i]) # Lower(saida[j])
    /\ \A i \in 1..Len(entrada.valores) : \E k \in 1..Len(saida) : Lower(saida[k]) = Lower(entrada.valores[i])
    /\ \A k \in 1..Len(saida) :
         /\ \E i \in 1..Len(entrada.valores) : Lower(entrada.valores[i]) = Lower(saida[k])
         /\ saida[k] = entrada.valores[PrimeiraOcorrencia(entrada.valores, saida[k])]
    /\ \A i \in 1..Len(saida) : \A j \in 1..Len(saida) :
         i < j => PrimeiraOcorrencia(entrada.valores, saida[i]) < PrimeiraOcorrencia(entrada.valores, saida[j])
    /\ Dedup(saida) = saida

\* Casado, then casado, then Solteira: the first casing of each is kept
C14_Testemunha ==
  /\ pc = "fim"
  /\ entrada.valores = <<<<"C", "a", "s", "a", "d", "o">>, <<"c", "a", "s", "a", "d", "o">>, <<"S", "o", "l", "t", "e", "i", "r", "a">>>>
  /\ saida = <<<<"C", "a", "s", "a", "d", "o">>, <<"S", "o", "l", "t", "e", "i", "r", "a">>>>

\* C15: in exact mode, with a target that is not empty, the text the
\* normalizer writes holds no occurrence of the target
C15_RemocaoExataCompleta ==
  (pc # "normaliza" /\ ~entrada.fuzzy /\ entrada.target # <<>> /\ arq[NORMALIZADO].existe) =>
    ~Contem(arq[NORMALIZADO].texto, entrada.target)

\* C16: no multi-valued field of a record holds two values that are equal
\* ignoring case
C16_CamposSemRepeticao ==
  \A k \in 1..Len(Registros) : \A c \in CamposMultiplos :
    \A i \in 1..Len(Registros[k][c]) : \A j \in 1..Len(Registros[k][c]) :
      i # j => Lower(Registros[k][c][i]) # Lower(Registros[k][c][j])

(***************************************************************************)
(* SpecPar: the loop of the assembler on two blocks                        *)
(***************************************************************************)

CadastrosPar ==
  { <<>>,
    <<"N", "o", "m", "e", ":", " ", "A", "n", "a", "\n", "C", "P", "F", ":", " ", "1", "2", "3", ".", "4", "5", "6", ".", "7", "8", "9", "-", "0", "9", "\n">>,
    <<"N", "o", "m", "e", ":", " ", "B", "i", "a", "\n", "E", "s", "t", "a", "d", "o", " ", "c", "i", "v", "i", "l", ":", " ", "S", "o", "l", "t", "e", "i", "r", "a", "\n">> }

CaudasPar ==
  { <<>>,
    PecasSecao[1] \o <<"\n", "C", "P", "F", ":", " ", "9", "8", "7", ".", "6", "5", "4", ".", "3", "2", "1", "-", "0", "0", "\n", "E", "-", "m", "a", "i", "l", ":", " ", "x", "@", "y", ".", "c", "o", "m", "\n">>,
    <<"R", "e", "c", "e", "b", "i", "m", "e", "n", "t", "o", ":", " ", "p", "i", "x", "\n", "C", "N", "S", ":", " ", "7", "0", "0", " ", "0", "0", "1", "0", " ", "8", "2", "8", "4", " ", "1", "5", "0", "6", "\n", "D", "a", "t", "a", " ", "d", "e", " ", "n", "a", "s", "c", "i", "m", "e", "n", "t", "o", ":", " ", "0", "1", "/", "0", "2", "/", "1", "9", "9", "0">>,
    <<"R", "E", "C", "E", "B", "I", "M", "E", "N", "T", "O", "\n", "T", "e", "l", ":", " ", "2", "7", " ", "3", "3", "3", "3", "-", "4", "4", "4", "4", "\n">> \o PecasSecao[2] \o <<"\n", "N", "o", "m", "e", " ", "d", "a", " ", "m", "a", "e", ":", " ", "E", "v", "a">> }

\* the blocks the segmenter may give: trimmed and not empty
BlocosPar == {Strip(c \o t) : c \in CadastrosPar, t \in CaudasPar} \ {<<>>}

\* the state in which the loop starts, with two blocks to take
InitPar ==
  /\ pc = "blocos"
  /\ blocos \in [1..2 -> BlocosPar]
  /\ indice = 1
  /\ resultado = [medico |-> [blocos |-> <<>>]]
  /\ cns_nao_detectados = <<>>
  /\ mae_nao_detectados = <<>>
  /\ pai_nao_detectados = <<>>
  /\ dt_nasc_nao_detectados = <<>>
  /\ vistos = {}
  /\ dados = <<>>
  /\ erro = ""
  /\ falhou = 0
  /\ docx = <<>>
  /\ gravavel = TRUE
  /\ arq = [f \in Arquivos |-> Ausente]
  /\ relatos = {}
  /\ entrada = <<>>
  /\ saida = <<>>

NextPar == ProcessaBloco \/ AnexaRegistros

SpecPar == InitPar /\ [][NextPar]_vars

CamposExtraidos == CamposUnicos \cup CamposMultiplos

\* the record of a block whose registration section is the text t
RegistroDoTexto(t) == BlocoDict(ExtraidoDe([cadastro |-> t, formacao |-> <<>>, recebimento |-> <<>>]))

\* two records with the same registration section have the same extracted fields
MesmoCadastroMesmosCampos ==
  \A i \in 1..Len(Registros) : \A j \in 1..Len(Registros) :
    Registros[i].cadastro = Registros[j].cadastro =>
      \A c \in CamposExtraidos : Registros[i][c] = Registros[j][c]

MaxTexto == 4
MaxSpans == 3

LetrasDoTexto == <<"a", "b", "c", "d", "e", "f", "g", "h">>

\* the spans <<start, end>> (end exclusive) of a text of n characters
SpansDe(n) == {<<a, b>> : a \in 1..n, b \in 2..(n + 1)} \cap {sp \in (1..n) \X (2..(n + 1)) : sp[1] < sp[2]}

EntradasMerge ==
  {[text |-> SubSeq(LetrasDoTexto, 1, MaxTexto), removals |-> rs] : rs \in SeqsAte(SpansDe(MaxTexto), MaxSpans)}

InitMerge ==
  /\ pc = "merge"
  /\ entrada \in EntradasMerge
  /\ saida = <<>>
  /\ arq = [f \in Arquivos |-> Ausente]
  /\ relatos = {}
  /\ MainParado

\* the merge loop and the removal loop of _remove_fuzzy_blocks
MergeERemove ==
  /\ pc = "merge"
  /\ saida' = [merged |-> Merge(entrada.removals),
               cleaned |-> PartesDe(entrada.text, Merge(entrada.removals), 1)]
  /\ pc' = "fim"
  /\ UNCHANGED <<arq, relatos, entrada, varsMain>>

NextMerge == MergeERemove

SpecMerge == InitMerge /\ [][NextMerge]_vars

\* the indices of the characters that the spans cover
Cobertos(spans) == UNION {sp[1]..(sp[2] - 1) : sp \in {spans[k] : k \in 1..Len(spans)}}

\* C19: the merged spans are sorted ascending and pairwise disjoint, they
\* cover exactly the characters the given spans cover, and the cleaned text
\* (before the newlines are collapsed) is the text without those characters,
\* the others kept in their order
C19_FusaoERemocao ==
  pc = "fim" =>
    /\ \A k \in 1..(Len(saida.merged) - 1) : saida.merged[k][2] < saida.merged[k + 1][1]
    /\ \A k \in 1..Len(saida.merged) : saida.merged[k][1] < saida.merged[k][2]
    /\ Cobertos(saida.merged) = Cobertos(entrada.removals)
    /\ saida.cleaned = SelectSeq([i \in 1..Len(entrada.text) |->
                                    IF i \in Cobertos(entrada.removals) THEN "" ELSE entrada.text[i]],
                                 LAMBDA c : c # "")

\* three spans given out of order, the first one inside another and the third
\* apart: two spans are left and the characters outside them are kept
C19_Testemunha ==
  /\ pc = "fim"
  /\ entrada.removals = <<<<2, 3>>, <<1, 3>>, <<4, 5>>>>
  /\ saida.merged = <<<<1, 3>>, <<4, 5>>>>
  /\ saida.cleaned = <<"c">>

(***************************************************************************)
(* SpecFuzzy: _remove_fuzzy_blocks on corpora of whole candidate blocks    *)
(***************************************************************************)

MaxBlocosFuzzy == 3

\* candidate blocks, each followed by a blank line
PecasDeBloco == <<
  <<"F", "A", "S", "E", " ", "2", "\n">> \o <<"CHECK","a"," ","CHECK","b"," ","CHECK","c"," ","CHECK","d","\n","\n">>,
  <<"F", "A", "S", "E", " ", "2", "\n">> \o <<"CHECK","a"," ","CHECK","b"," ","CHECK","c","\n","\n">>,
  <<"f", "a", "s", "e", " ", "2", "\n">> \o <<"CHECK","a"," ","CHECK","b"," ","CHECK","c"," ","CHECK","e","\n","\n">>,
  <<"F", "A", "S", "E", " ", "2", "\n">> \o <<"CHECK","a"," ","CHECK","b"," ","CHECK","e"," ","CHECK","f","\n","\n">>,
  <<"F", "A", "S", "E", " ", "2", "\n">> \o <<"CHECK","a"," ","CHECK","b"," ","CHECK","c"," ","CHECK","d"," ",
                     "CHECK","e"," ","CHECK","f"," ","CHECK","g","\n","\n">> >>

\* the target of SpecNorm, and a target whose token set is empty
AlvosFuzzy == {AlvoFuzzy, <<":", " ", "v">>}

EntradasFuzzy ==
  [corpus : {Junta(PecasDeBloco, is) : is \in SeqsAte(1..Len(PecasDeBloco), MaxBlocosFuzzy)},
   target : AlvosFuzzy]

InitFuzzy ==
  /\ pc = "fuzzy"
  /\ entrada \in EntradasFuzzy
  /\ saida = <<>>
  /\ arq = [f \in Arquivos |-> Ausente]
  /\ relatos = {}
  /\ MainParado

\* _remove_fuzzy_blocks(text, target): the spans kept for removal and the text
\* returned
RemoveFuzzy ==
  /\ pc = "fuzzy"
  /\ saida' = [removals |-> Removals(entrada.corpus, entrada.target),
               cleaned |-> RemoveFuzzyBlocks(entrada.corpus, entrada.target)]
  /\ pc' = "fim"
  /\ UNCHANGED <<arq, relatos, entrada, varsMain>>

NextFuzzy == RemoveFuzzy

SpecFuzzy == InitFuzzy /\ [][NextFuzzy]_vars

\* the candidate blocks of the corpus, as spans
Candidatos == {BlocosDe(entrada.corpus, 1)[k] : k \in 1..Len(BlocosDe(entrada.corpus, 1))}

TextoDe(sp) == SubSeq(entrada.corpus, sp[1], sp[2] - 1)

Removido(sp) == \E k \in 1..Len(saida.removals) : saida.removals[k] = sp

\* |intersection| / max(|tokens_a|, |tokens_b|) >= 0.7, on the token sets
RazaoBasta(ta, tb) ==
  /\ ta # {}
  /\ tb # {}
  /\ 10 * Cardinality(ta \cap tb) >=
       7 * (IF Cardinality(ta) >= Cardinality(tb) THEN Cardinality(ta) ELSE Cardinality(tb))

\* fewer than four glyphs, or an empty token set with normalized texts that differ
ForaDeQuestao(sp) ==
  \/ ContaChar(TextoDe(sp), "CHECK") < 4
  \/ /\ TokenSet(TextoDe(sp)) = {} \/ TokenSet(entrada.target) = {}
     /\ NormalizeForCompare(TextoDe(sp)) # NormalizeForCompare(entrada.target)

\* C18: a candidate block is removed only if it holds at least four marker
\* glyphs and its normalized text equals the normalized target or the token
\* sets have similarity >= 0.7; a candidate with fewer than four glyphs, or one
\* where a token set is empty and the normalized texts differ, is not removed
\* and stays in the text returned
C18_QualificacaoFuzzy ==
  pc = "fim" =>
    \A sp \in Candidatos :
      /\ Removido(sp) =>
           /\ ContaChar(TextoDe(sp), "CHECK") >= 4
           /\ \/ NormalizeForCompare(TextoDe(sp)) = NormalizeForCompare(entrada.target)
              \/ RazaoBasta(TokenSet(TextoDe(sp)), TokenSet(entrada.target))
      /\ ForaDeQuestao(sp) =>
           /\ ~Removido(sp)
           /\ Find(saida.cleaned, TextoDe(sp), 1) # 0

\* a corpus of three candidates: the one with three glyphs is kept although
\* its tokens are close to the target's, the one with four glyphs and a
\* similarity of 5/6 is removed, the one with a similarity of 4/6 is kept
C18_Testemunha ==
  /\ pc = "fim"
  /\ entrada.target = AlvoFuzzy
  /\ entrada.corpus = Junta(PecasDeBloco, <<2, 3, 4>>)
  /\ Cardinality(Candidatos) = 3
  /\ Len(saida.removals) = 1
  /\ saida.cleaned = PecasDeBloco[2] \o PecasDeBloco[4]

\* the merge loop of the older normalizacao.py, whose else branch reads
\* merged[-1][start]: the pair has the indices 0 and 1 only, and any other
\* start raises IndexError
RECURSIVE MergeDeLegado(_, _)
MergeDeLegado(merged, resto) ==
  IF resto = <<>> THEN merged
  ELSE IF Len(merged) = 0 \/ Head(resto)[1] > merged[Len(merged)][2]
    THEN MergeDeLegado(Append(merged, Head(resto)), Tail(resto))
  ELSE IF Head(resto)[1] - 1 \notin {0, 1} THEN "IndexError"
  ELSE MergeDeLegado([merged EXCEPT ![Len(merged)] =
                        <<merged[Len(merged)][Head(resto)[1]],
                          Max({merged[Len(merged)][2], Head(resto)[2]})>>], Tail(resto))

MergeLegado(removals) == MergeDeLegado(<<>>, Sorted(removals))

\* the spans the scan of BLOCK_REGEX keeps are apart from one another, so the
\* else branch of the merge loop is not entered and the two loops agree
SpansDaBuscaSeparados ==
  pc = "fim" =>
    /\ \A k \in 1..(Len(saida.removals) - 1) : saida.removals[k][2] < saida.removals[k + 1][1]
    /\ MergeLegado(saida.removals) = saida.removals
    /\ Merge(saida.removals) = saida.removals

\* on a list with spans that overlap the older loop raises
LegadoFalhaEmSobreposicao ==
  pc = "fim" /\ entrada.removals = <<<<2, 4>>, <<3, 5>>>> => MergeLegado(entrada.removals) = "IndexError"

\* two separated spans kept by the scan
DoisSpansDaBusca == pc = "fim" /\ Len(saida.removals) = 2

(***************************************************************************)
(* SpecFaixa: _encontrar_data_nascimento on days and months out of range   *)
(***************************************************************************)

DiasFaixa == {0, 1, 9, 31, 32, 99}
MesesFaixa == {0, 1, 12, 13, 99}
AnosEscritos == {<<"0", "0">>, <<"2", "9">>, <<"3", "0">>, <<"9", "9">>, <<"1", "9", "9">>, <<"1", "9", "9", "2">>, <<"0", "0", "0", "0">>}

\* the ways a dossier writes the date: with two separators (padded or not),
\* DD/MMYYYY, DDMMYYYY, and the three numbers with words between them
FormasFaixa == {"sep", "curto", "meio", "junto", "solto"}

EscritaFaixa(d, m, y, forma) ==
  CASE forma = "sep" -> Formata(d, 2) \o <<"/">> \o Formata(m, 2) \o <<"/">> \o y
    [] forma = "curto" -> Escreve(d, 2, FALSE) \o <<"-">> \o Escreve(m, 2, FALSE) \o <<"-">> \o y
    [] forma = "meio" -> Formata(d, 2) \o <<".">> \o Formata(m, 2) \o y
    [] forma = "junto" -> Formata(d, 2) \o Formata(m, 2) \o y
    [] forma = "solto" -> Formata(d, 2) \o <<" ", "d", "e", " ">> \o Formata(m, 2) \o <<" ", "d", "e", " ">> \o y

EntradasFaixa ==
  {[d |-> d, m |-> m, y |-> y, forma |-> forma, bloco |-> ROTULO_DATA \o EscritaFaixa(d, m, y, forma)] :
      d \in DiasFaixa, m \in MesesFaixa, y \in AnosEscritos, forma \in FormasFaixa}

InitFaixa ==
  /\ pc = "faixa"
  /\ entrada \in EntradasFaixa
  /\ saida = Nenhum
  /\ arq = [f \in Arquivos |-> Ausente]
  /\ relatos = {}
  /\ MainParado

DataNaFaixa ==
  /\ pc = "faixa"
  /\ saida' = EncontrarDataNascimento(entrada.bloco)
  /\ pc' = "fim"
  /\ UNCHANGED <<arq, relatos, entrada, varsMain>>

NextFaixa == DataNaFaixa

SpecFaixa == InitFaixa /\ [][NextFaixa]_vars

\* the number two digit characters write
DoisDigitos(a, b) == 10 * ValorDoDigito(a) + ValorDoDigito(b)

\* C21: a birth date returned is four digits, a hyphen, two digits, a hyphen
\* and two digits, with the month in 1..12 and the day in 1..31, whichever of
\* the three patterns or the positional fall-back produced it
C21_DataNaFaixa ==
  pc = "fim" /\ saida # Nenhum =>
    /\ Len(saida[1]) = 10
    /\ \A k \in {1, 2, 3, 4, 6, 7, 9, 10} : saida[1][k] \in Digitos
    /\ saida[1][5] = "-" /\ saida[1][8] = "-"
    /\ DoisDigitos(saida[1][6], saida[1][7]) \in 1..12
    /\ DoisDigitos(saida[1][9], saida[1][10]) \in 1..31

\* the three numbers written with words between them: the positional
\* fall-back gives the date
C21_Testemunha ==
  /\ pc = "fim"
  /\ entrada.forma = "solto" /\ entrada.d = 31 /\ entrada.m = 12 /\ entrada.y = <<"1", "9", "9", "2">>
  /\ saida = Algum(<<"1", "9", "9", "2", "-", "1", "2", "-", "3", "1">>)

(***************************************************************************)
(* SpecNome: _encontrar_nome_profissional on one or two lines              *)
(***************************************************************************)

MargensNome == {<<>>, <<" ", " ">>}
RotulosDoNome == {<<"N", "o", "m", "e">>, <<"N", "O", "M", "E">>}
RotulosDosPais == {<<"N", "o", "m", "e", " ", "d", "a", " ", "m", "a~", "e">>, <<"N", "o", "m", "e", " ", "d", "o", " ", "p", "a", "i">>}
SeparadoresNome == {<<":", " ">>, <<":">>, <<" ">>}
ValoresNome == {<<"A", "n", "a", " ", "L", "i", "m", "a">>, <<"C", "a", "r", "l", "o", "s", " ", "P", "a", "i", "v", "a">>, <<"I", "s", "m", "a", "e", "l">>, <<>>}
SegundasLinhas == {<<>>, <<"\n", "N", "o", "m", "e", ":", " ", "B", "i", "a">>, <<"\n", "C", "P", "F", ":", " ", "1">>, <<"\n", "N", "o", "m", "e", " ", "d", "a", " ", "m", "a~", "e", ":", " ", "R", "i", "t", "a">>}

\* a line as the dossier writes it: margin, label, separator, value
LinhaNome(l) == l.margem \o l.rotulo \o l.sep \o l.valor

EntradasNome ==
  {[l1 |-> l, resto |-> r, bloco |-> LinhaNome(l) \o r] :
      l \in [margem : MargensNome, rotulo : RotulosDoNome \cup RotulosDosPais,
             sep : SeparadoresNome, valor : ValoresNome],
      r \in SegundasLinhas}

InitNome ==
  /\ pc = "nome"
  /\ entrada \in EntradasNome
  /\ saida = Nenhum
  /\ arq = [f \in Arquivos |-> Ausente]
  /\ relatos = {}
  /\ MainParado

Nome ==
  /\ pc = "nome"
  /\ saida' = EncontrarNomeProfissional(entrada.bloco)
  /\ pc' = "fim"
  /\ UNCHANGED <<arq, relatos, entrada, varsMain>>

NextNome == Nome

SpecNome == InitNome /\ [][NextNome]_vars

\* C22: the first line whose label is the name label (and not the mother's or
\* the father's) gives the text after its first colon whatever that text is,
\* and the value of a mother's or father's line is never the name
C22_LinhaDoNome ==
  pc = "fim" =>
    /\ entrada.l1.rotulo \in RotulosDoNome /\ entrada.l1.sep[1] = ":" /\ entrada.l1.valor # <<>>
         => saida = Algum(entrada.l1.valor)
    /\ entrada.l1.rotulo \in RotulosDosPais /\ entrada.l1.valor # <<>>
         => saida # Algum(entrada.l1.valor)

\* C23: a name line without a colon, with or without a margin, gives the
\* trimmed text that follows the label word and the white space after it
C23_NomeSemDoisPontos ==
  pc = "fim" /\ entrada.l1.rotulo \in RotulosDoNome /\ entrada.l1.sep = <<" ">>
             /\ entrada.l1.valor = <<"A", "n", "a", " ", "L", "i", "m", "a">>
    => saida = Algum(entrada.l1.valor)

(***************************************************************************)
(* SpecNasc: the birthplace of extrair_informacoes_rg_ci                   *)
(***************************************************************************)

\* lines of a dossier with the municipality they name (<<>> when they name
\* none: no such line, or a value that is punctuation only)
LinhasMunicipio ==
  { <<<<>>, <<>>>>,
    <<<<"M", "u", "n", "i", "c", "i'", "p", "i", "o", " ", "d", "e", " ", "n", "a", "s", "c", "i", "m", "e", "n", "t", "o", ":", " ", "V", "i", "t", "o'", "r", "i", "a">>, <<"V", "i", "t", "o'", "r", "i", "a">>>>,
    <<<<"M", "U", "N", "I", "C", "I", "P", "I", "O", " ", "D", "E", " ", "N", "A", "S", "C", "I", "M", "E", "N", "T", "O", ":", " ", "V", "i", "l", "a", " ", "V", "e", "l", "h", "a", ".">>, <<"V", "i", "l", "a", " ", "V", "e", "l", "h", "a">>>>,
    <<<<"M", "u", "n", "i", "c", "i'", "p", "i", "o", " ", "d", "e", " ", "n", "a", "s", "c", "i", "m", "e", "n", "t", "o", ":", " ", "S", "e", "r", "r", "a", " ", "-", " ", "E", "S">>, <<"S", "e", "r", "r", "a">>>>,
    <<<<"M", "u", "n", "i", "c", "i'", "p", "i", "o", " ", "d", "e", " ", "n", "a", "s", "c", "i", "m", "e", "n", "t", "o", ":", " ", ".">>, <<>>>> }

\* lines with the state of birth they name, upper-cased (<<>> when none)
LinhasUfNasc ==
  { <<<<>>, <<>>>>,
    <<<<"U", "F", " ", "d", "e", " ", "n", "a", "s", "c", "i", "m", "e", "n", "t", "o", ":", " ", "e", "s">>, <<"E", "S">>>>,
    <<<<"U", "F", " ", "D", "E", " ", "N", "A", "S", "C", "I", "M", "E", "N", "T", "O", ":", " ", "M", "g">>, <<"M", "G">>>>,
    <<<<"U", "F", ":", " ", "r", "j">>, <<"R", "J">>>>,
    <<<<"U", "F", " ", "C", "I", ":", " ", "S", "P">>, <<>>>> }

PrimeirasLinhasNasc == {<<>>, <<"N", "o", "m", "e", ":", " ", "A", "n", "a">>}

TextoNasc(a, b, c) == JuntaLinhas(SelectSeq(<<a, b, c>>, LAMBDA l : l # <<>>))

EntradasNasc ==
  {[municipio |-> lm[2], uf |-> lu[2],
    texto |-> IF antes THEN TextoNasc(p, lm[1], lu[1]) ELSE TextoNasc(p, lu[1], lm[1])] :
      lm \in LinhasMunicipio, lu \in LinhasUfNasc, p \in PrimeirasLinhasNasc, antes \in BOOLEAN}

InitNasc ==
  /\ pc = "nasc"
  /\ entrada \in EntradasNasc
  /\ saida = <<>>
  /\ arq = [f \in Arquivos |-> Ausente]
  /\ relatos = {}
  /\ MainParado

Nasc ==
  /\ pc = "nasc"
  /\ saida' = ExtrairInformacoesRgCi(entrada.texto)
  /\ pc' = "fim"
  /\ UNCHANGED <<arq, relatos, entrada, varsMain>>

NextNasc == Nasc

SpecNasc == InitNasc /\ [][NextNasc]_vars

\* C24: the birthplace is the one item "municipality - STATE" when both are
\* found, the municipality alone when only it is found, and nothing when no
\* municipality is found, a state found or not; the state is in upper case
C24_Naturalidade ==
  pc = "fim" =>
    /\ Len(saida.endereco_nascimento) <= 1
    /\ saida.endereco_nascimento =
         (IF entrada.municipio = <<>> THEN <<>>
          ELSE IF entrada.uf = <<>> THEN <<entrada.municipio>>
          ELSE <<entrada.municipio \o <<" ", "-", " ">> \o entrada.uf>>)

\* a municipality and a state written in lower case
C24_Testemunha ==
  /\ pc = "fim"
  /\ entrada.municipio = <<"V", "i", "t", "o'", "r", "i", "a">>
  /\ Contem(entrada.texto, <<"U", "F", " ", "d", "e", " ", "n", "a", "s", "c", "i", "m", "e", "n", "t", "o", ":", " ", "e", "s">>)
  /\ saida.endereco_nascimento = <<<<"V", "i", "t", "o'", "r", "i", "a", " ", "-", " ", "E", "S">>>>

\* a state and no municipality: nothing
C24_SoUf == pc = "fim" /\ entrada.municipio = <<>> /\ entrada.uf = <<"R", "J">> /\ saida.endereco_nascimento = <<>>

(***************************************************************************)
(* SpecCarga: the weekly hours of extract_address_email_contacts           *)
(***************************************************************************)

ROTULO_CARGA == <<"C", "a", "r", "g", "a", " ", "h", "o", "r", "a'", "r", "i", "a", " ", "s", "e", "m", "a", "n", "a", "l">>
SeparadoresCarga == {<<":">>, <<":", " ">>, <<" ", "-", " ">>}

\* values on the label's line, each with what it is once trimmed and collapsed
ValoresCarga ==
  { <<<<>>, <<>>>>, <<<<" ", " ">>, <<>>>>, <<<<"4", "0", "h">>, <<"4", "0", "h">>>>, <<<<"2", "0", " ", " ", "h", "o", "r", "a", "s", " ">>, <<"2", "0", " ", "h", "o", "r", "a", "s">>>> }

\* what follows the label's line, with the weekly hours it adds
RestosCarga ==
  { <<<<>>, <<>>>>,
    <<<<"\n", "T", "e", "l", ":", " ", "2", "7", " ", "3", "3", "3", "3", "-", "4", "4", "4", "4">>, <<>>>>,
    <<<<"\n", "\n", "E", "-", "m", "a", "i", "l", ":", " ", "a", "n", "a", "@", "m", "a", "i", "l", ".", "c", "o", "m">>, <<>>>>,
    <<<<"\n", "C", "a", "r", "g", "a", " ", "h", "o", "r", "a", "r", "i", "a", " ", "s", "e", "m", "a", "n", "a", "l", ":", " ", "1", "2", "h">>, <<<<"1", "2", "h">>>>>> }

PrimeirasLinhasCarga == {<<>>, <<"N", "o", "m", "e", ":", " ", "A", "n", "a", "\n">>}

EntradasCarga ==
  {[valor |-> v[2], depois |-> r[2], text |-> p \o ROTULO_CARGA \o s \o v[1] \o r[1]] :
      p \in PrimeirasLinhasCarga, s \in SeparadoresCarga, v \in ValoresCarga, r \in RestosCarga}

InitCarga ==
  /\ pc = "carga"
  /\ entrada \in EntradasCarga
  /\ saida = <<>>
  /\ arq = [f \in Arquivos |-> Ausente]
  /\ relatos = {}
  /\ MainParado

Carga ==
  /\ pc = "carga"
  /\ saida' = ExtractAddressEmailContacts(entrada.text)
  /\ pc' = "fim"
  /\ UNCHANGED <<arq, relatos, entrada, varsMain>>

NextCarga == Carga

SpecCarga == InitCarga /\ [][NextCarga]_vars

\* C25: a label whose own line has no value adds no weekly-hours entry,
\* whatever the later lines hold, and an entry added is the value of the
\* label's own line, trimmed and with its white space collapsed
C25_CargaDaPropriaLinha ==
  pc = "fim" =>
    saida.carga_horaria_semanal =
      (IF entrada.valor = <<>> THEN <<>> ELSE <<entrada.valor>>) \o entrada.depois

(***************************************************************************)
(* SpecSnip: texttocsv.py, the snippets of a file read line by line        *)
(***************************************************************************)

MaxLinhasSnip == 3

HEADER_PREFIX == <<"-", "-", "-", "-", " ">>
HEADER_SUFFIX == <<" ", "-", "-", "-", "-">>

\* line.startswith(HEADER_PREFIX) and line.endswith(HEADER_SUFFIX)
EhCabecalho(line) ==
  OcorreEm(line, HEADER_PREFIX, 1) /\ OcorreEm(line, HEADER_SUFFIX, Len(line) - Len(HEADER_SUFFIX) + 1)

\* line[len(HEADER_PREFIX):-len(HEADER_SUFFIX)].strip()
NomeDoCabecalho(line) == Strip(Fatia(line, Len(HEADER_PREFIX) + 1, Len(line) - Len(HEADER_SUFFIX)))

\* the buffer once the blank lines at its end are popped
SemBrancosNoFim(buffer) ==
  SubSeq(buffer, 1, Max({0} \cup {k \in 1..Len(buffer) : Strip(buffer[k]) # <<>>}))

\* the lines of the buffer joined as they are
TextoDoTrechoInteiro(buffer) == JuntaLinhas(buffer)

\* the text flush yields for the buffer: "\n".join(buffer).rstrip()
TextoDoTrecho(buffer) == RStrip(JuntaLinhas(SemBrancosNoFim(buffer)))

LinhasSnip ==
  { <<"-", "-", "-", "-", " ", "a", ".", "d", "o", "c", "x", " ", "-", "-", "-", "-">>, <<"-", "-", "-", "-", " ", " ", "b", " ", "c", " ", " ", "-", "-", "-", "-">>, <<"-", "-", "-", "-", " ", "-", "-", "-", "-">>, <<"-", "-", "-", "-", " ", "d", " ", "-", "-", "-", "-", " ">>,
    <<"x">>, <<" ", "y", " ", " ">>, <<>>, <<" ">> }

\* the lines of the file, the position of the reader, current_name, buffer,
\* and the two lists of text_to_csv
InitSnip ==
  /\ pc = "le"
  /\ entrada \in [linhas : SeqsAte(LinhasSnip, MaxLinhasSnip)]
  /\ saida = [i |-> 1, current_name |-> Nenhum, buffer |-> <<>>, filenames |-> <<>>, texts |-> <<>>]
  /\ arq = [f \in Arquivos |-> Ausente]
  /\ relatos = {}
  /\ MainParado

\* what flush yields appended to the lists: nothing while no header was seen
ListasComFlush ==
  IF saida.current_name = Nenhum THEN [filenames |-> saida.filenames, texts |-> saida.texts]
  ELSE [filenames |-> Append(saida.filenames, saida.current_name[1]),
        texts |-> Append(saida.texts, TextoDoTrecho(saida.buffer))]

\* a header line: the snippet that was open is yielded and a new one opened
LeCabecalho ==
  /\ pc = "le"
  /\ saida.i <= Len(entrada.linhas)
  /\ EhCabecalho(entrada.linhas[saida.i])
  /\ saida' = [i |-> saida.i + 1,
               current_name |-> Algum(NomeDoCabecalho(entrada.linhas[saida.i])),
               buffer |-> <<>>,
               filenames |-> ListasComFlush.filenames,
               texts |-> ListasComFlush.texts]
  /\ UNCHANGED <<pc, arq, relatos, entrada, varsMain>>

\* any other line goes to the buffer
LeLinha ==
  /\ pc = "le"
  /\ saida.i <= Len(entrada.linhas)
  /\ ~EhCabecalho(entrada.linhas[saida.i])
  /\ saida' = [saida EXCEPT !.i = saida.i + 1, !.buffer = Append(saida.buffer, entrada.linhas[saida.i])]
  /\ UNCHANGED <<pc, arq, relatos, entrada, varsMain>>

\* end of file: the snippet that is open is yielded
FimDoArquivo ==
  /\ pc = "le"
  /\ saida.i > Len(entrada.linhas)
  /\ saida' = [saida EXCEPT !.filenames = ListasComFlush.filenames, !.texts = ListasComFlush.texts]
  /\ pc' = "fim"
  /\ UNCHANGED <<arq, relatos, entrada, varsMain>>

NextSnip == LeCabecalho \/ LeLinha \/ FimDoArquivo

SpecSnip == InitSnip /\ [][NextSnip]_vars

\* the indices of the header lines of the file, and of those read so far
Cabecalhos == {k \in 1..Len(entrada.linhas) : EhCabecalho(entrada.linhas[k])}
CabecalhosLidos == {k \in Cabecalhos : k < saida.i}

\* the index of the n-th header line
EnesimoCabecalho(n) == CHOOSE h \in Cabecalhos : Cardinality({k \in Cabecalhos : k <= h}) = n

\* the lines after the header at h up to the next header or the end of file
LinhasDoTrecho(h) ==
  SubSeq(entrada.linhas, h + 1, Min({k \in Cabecalhos : k > h} \cup {Len(entrada.linhas) + 1}) - 1)

\* the text between the prefix and the suffix of the header at h
EntreMarcas(h) == Fatia(entrada.linhas[h], 6, Len(entrada.linhas[h]) - 5)

\* C26 as stated: one snippet per header line, in file order, named by the
\* text between prefix and suffix, its text the lines up to the next header
\* or the end of file without the blank lines at the end; lines before the
\* first header are in no snippet
C26_LeitorDeTrechos ==
  pc = "fim" =>
    /\ Len(saida.filenames) = Cardinality(Cabecalhos)
    /\ Len(saida.texts) = Cardinality(Cabecalhos)
    /\ \A n \in 1..Cardinality(Cabecalhos) :
         /\ saida.filenames[n] = EntreMarcas(EnesimoCabecalho(n))
         /\ saida.texts[n] = JuntaLinhas(SemBrancosNoFim(LinhasDoTrecho(EnesimoCabecalho(n))))

\* C26 amended: the name is the text between prefix and suffix trimmed, and
\* the text also loses the white space at the end of its last line; while the
\* file is read the two lists have one item for each header line read but
\* the last
C26_LeitorDeTrechosAparados ==
  /\ Len(saida.filenames) = Len(saida.texts)
  /\ pc = "le" => Len(saida.filenames) = Max({0, Cardinality(CabecalhosLidos) - 1})
  /\ pc = "le" => (saida.current_name = Nenhum <=> CabecalhosLidos = {})
  /\ pc = "fim" =>
       /\ Len(saida.filenames) = Cardinality(Cabecalhos)
       /\ \A n \in 1..Cardinality(Cabecalhos) :
            /\ saida.filenames[n] = Strip(EntreMarcas(EnesimoCabecalho(n)))
            /\ saida.texts[n] = RStrip(JuntaLinhas(SemBrancosNoFim(LinhasDoTrecho(EnesimoCabecalho(n)))))

\* a line before the first header, a header with spaces around the name, and
\* a line with white space at its end: one snippet, both trimmed
C26_Testemunha ==
  /\ pc = "fim"
  /\ entrada.linhas = <<<<"x">>, <<"-", "-", "-", "-", " ", " ", "b", " ", "c", " ", " ", "-", "-", "-", "-">>, <<" ", "y", " ", " ">>>>
  /\ saida.filenames = <<<<"b", " ", "c">>>>
  /\ saida.texts = <<<<" ", "y">>>>

\* the records, in order, for whose registration section an extractor gives
\* nothing
SemCns == SelectSeq(Registros, LAMBDA r : EncontrarCnsEmBloco(r.cadastro) = Nenhum)
SemMae == SelectSeq(Registros, LAMBDA r : EncontrarNomeMae(r.cadastro) = Nenhum)
SemPai == SelectSeq(Registros, LAMBDA r : EncontrarNomePai(r.cadastro) = Nenhum)
SemData == SelectSeq(Registros, LAMBDA r : EncontrarDataNascimento(r.cadastro) = Nenhum)

\* the audit entries of a sequence of records
SoCpf(rs) == [k \in 1..Len(rs) |-> [cpf |-> rs[k].cpf]]
NomeECpf(rs) == [k \in 1..Len(rs) |-> [nome |-> rs[k].nome, cpf |-> rs[k].cpf]]

\* C27: each registry holds, in block order, one entry for each record whose
\* extractor for that field returned nothing and no other entry; the entry
\* carries the identity number of that record (the placeholder when none was
\* found) and the health-card entry the name of that record
C27_RegistrosCorrelatos ==
  /\ cns_nao_detectados = NomeECpf(SemCns)
  /\ mae_nao_detectados = SoCpf(SemMae)
  /\ pai_nao_detectados = SoCpf(SemPai)
  /\ dt_nasc_nao_detectados = SoCpf(SemData)
  /\ "cns_nao_identificados" \in DOMAIN resultado.medico =>
       /\ resultado.medico.cns_nao_identificados = NomeECpf(SemCns)
       /\ resultado.medico.mae_nao_identificados = SoCpf(SemMae)
       /\ resultado.medico.pai_nao_identificados = SoCpf(SemPai)
       /\ resultado.medico.data_nascimento_nao_identificados = SoCpf(SemData)

\* two records: the first has its health card and its mother's name, the
\* second has neither and is in both registries under its own identity
\* number, and in the health-card registry under its own name
C27_Testemunha ==
  /\ pc = "fim"
  /\ Len(Registros) = 2
  /\ Registros[1].cns # PLACEHOLDER_CNS
  /\ Registros[2].cpf # PLACEHOLDER_CPF
  /\ Registros[2].nome # PLACEHOLDER_NOME
  /\ resultado.medico.cns_nao_identificados = <<[nome |-> Registros[2].nome, cpf |-> Registros[2].cpf]>>
  /\ resultado.medico.mae_nao_identificados = <<[cpf |-> Registros[2].cpf]>>

\* the number of records with a given value in a field
Quantos(campo, valor) == Cardinality({k \in 1..Len(Registros) : Registros[k][campo] = valor})

\* C28 as stated: each of the health-card, mother's-name and father's-name
\* registries is as long as there are records with that field's placeholder
C28_SimetriaDosOutros ==
  /\ Len(cns_nao_detectados) = Quantos("cns", PLACEHOLDER_CNS)
  /\ Len(mae_nao_detectados) = Quantos("nome_mae", PLACEHOLDER_MAE)
  /\ Len(pai_nao_detectados) = Quantos("nome_pai", PLACEHOLDER_PAI)

\* C28 amended: the health-card registry is as long as there are records
\* with the health-card placeholder; the mother's-name and father's-name
\* registries are as long as there are records whose extractor returned
\* nothing, which is no more than the records with the placeholder
C28_SimetriaDosAusentes ==
  /\ Len(cns_nao_detectados) = Quantos("cns", PLACEHOLDER_CNS)
  /\ Len(mae_nao_detectados) = Len(SemMae)
  /\ Len(mae_nao_detectados) <= Quantos("nome_mae", PLACEHOLDER_MAE)
  /\ Len(pai_nao_detectados) = Len(SemPai)
  /\ Len(pai_nao_detectados) <= Quantos("nome_pai", PLACEHOLDER_PAI)

\* a dossier that gives the placeholder's own text as the mother's name and
\* one that names no mother: two records with the placeholder, one entry
C28_Testemunha ==
  /\ pc = "fim"
  /\ Len(Registros) = 2
  /\ Quantos("nome_mae", PLACEHOLDER_MAE) = 2
  /\ Len(resultado.medico.mae_nao_identificados) = 1
  /\ Quantos("cns", PLACEHOLDER_CNS) = 1
  /\ Len(resultado.medico.cns_nao_identificados) = 1

\* C29: every result the block processor returns holds the records list and
\* the four registry keys, the result for an empty corpus and the result for
\* a missing normalized file included, and the statistics of main do not fail
C29_ResultadoCompleto ==
  /\ dados # <<>> => {"blocos"} \cup ChavesDeRegistro \subseteq DOMAIN dados[1].medico
  /\ erro # "KeyError"

(***************************************************************************)
(* SpecMoldura: the normalizer on a corpus framed document by document     *)
(***************************************************************************)

MaxDocsMoldura == 2

\* texts of dossiers: the boilerplate on one line at the end, in several
\* lines in the middle, in several lines at the end, runs of line breaks,
\* and texts without boilerplate
TextosMoldura ==
  << <<"N", "o", "m", "e", ":", " ", "E", "v", "a", "\n", "F", "A", "S", "E", " ", "2", " ">> \o <<"CHECK","a"," ","CHECK","b"," ","CHECK","c"," ","CHECK","d">>,
     <<"N", "o", "m", "e", ":", " ", "A", "n", "a", "\n", " ", "F", "A", "S", "E", " ", "2", "\n">> \o <<"CHECK","a",":"," ","a","n","e","x","o"," ","CHECK","b"," ","CHECK","c"," ","CHECK","d">>
       \o <<"\n", "\n", "C", "P", "F", ":", " ", "1">>,
     <<"F", "A", "S", "E", " ", "2", "\n">> \o <<"CHECK","a"," ","CHECK","b"," ","CHECK","c"," ","CHECK","d">>,
     <<"x", "\n", "\n", "\n", "\n", "y">>,
     <<"N", "o", "m", "e", ":", " ", "B", "i", "a">>,
     <<"N", "o", "m", "e", ":", " ", "D", "a", "n", "\n", "-", "-", "-", "-", "-", "\n", "\n", "C", "P", "F", ":", " ", "2">> >>

NomesMoldura == <<<<"a", ".", "d", "o", "c", "x">>, <<"b", ".", "d", "o", "c", "x">>, <<"c", ".", "d", "o", "c", "x">>, <<"d", ".", "d", "o", "c", "x">>>>

\* all_texts.txt for the documents with the texts numbered is
CorpusMoldura(is) ==
  Concat([k \in 1..Len(is) |-> Moldura([nome |-> NomesMoldura[k], texto |-> TextosMoldura[is[k]]])])

EntradasMoldura ==
  {[corpus |-> CorpusMoldura(is), target |-> AlvoFuzzy, fuzzy |-> fz, existe |-> TRUE] :
      is \in SeqsAte(1..Len(TextosMoldura), MaxDocsMoldura), fz \in BOOLEAN}

InitMoldura ==
  /\ entrada \in EntradasMoldura
  /\ pc = "normaliza"
  /\ arq = [f \in Arquivos |-> IF f = ALL_TEXTS THEN Arquivo(entrada.corpus) ELSE Ausente]
  /\ relatos = {}
  /\ MainParado
  /\ saida = <<>>

NextMoldura == Normaliza \/ Renormaliza

SpecMoldura == InitMoldura /\ [][NextMoldura]_vars

\* the first line of a block
CabecalhoDoBloco(b) == SubSeq(b, 1, Min({k \in 1..Len(b) : b[k] = "\n"} \cup {Len(b) + 1}) - 1)

\* C30: the normalized corpus has the blocks of the raw corpus, as many and
\* in the same order, each under the header line of its document
C30_MolduraPreservada ==
  pc # "normaliza" =>
    /\ Len(Blocos(arq[NORMALIZADO].texto)) = Len(Blocos(entrada.corpus))
    /\ \A k \in 1..Len(Blocos(entrada.corpus)) :
         CabecalhoDoBloco(Blocos(arq[NORMALIZADO].texto)[k]) = CabecalhoDoBloco(Blocos(entrada.corpus)[k])

====
